---- MODULE Spec2Model ----
(***************************************************************************)
(* The credential vault of generate_it/storage.py (class StorageManager)   *)
(* as a state machine: the SQLite store (config and credentials tables,    *)
(* the AUTOINCREMENT counter), the manager's in-memory cipher and          *)
(* connection, and one action per public method.                           *)
(*                                                                         *)
(* Text is a sequence of characters, so that str.lower() and str.strip()   *)
(* are computed and not assumed.  Fernet and PBKDF2 are idealised: a key   *)
(* is the pair (password, salt) it was derived from, a token is the pair   *)
(* (key, plaintext), and decryption succeeds exactly under the key that    *)
(* encrypted.                                                              *)
(***************************************************************************)
EXTENDS Integers, Sequences, FiniteSets, TLC

\* ------------------------------------------------------------------ bounds

\* Rows that AUTOINCREMENT may number (save and import stop at this id).
MaxId == 2
\* Calls of initialize_vault (each draws a fresh salt).
MaxInit == 2
\* Data rows of an imported CSV file.
MaxRows == 2

\* ------------------------------------------------------------------- text

\* str.lower() on one character of the alphabet used here.
Lower(c) ==
    CASE c = "G" -> "g"
      [] c = "U" -> "u"
      [] c = "X" -> "x"
      [] OTHER -> c

\* str.lower(): character by character.
LowerStr(s) == [i \in 1..Len(s) |-> Lower(s[i])]

\* The characters str.strip() removes (whitespace).
IsSpace(c) == c = " "

RECURSIVE LStrip(_)
LStrip(s) == IF s # <<>> /\ IsSpace(Head(s)) THEN LStrip(Tail(s)) ELSE s

RECURSIVE RStrip(_)
RStrip(s) ==
    IF s # <<>> /\ IsSpace(s[Len(s)]) THEN RStrip(SubSeq(s, 1, Len(s) - 1)) ELSE s

\* str.strip(): leading and trailing whitespace removed.
Strip(s) == RStrip(LStrip(s))

\* Code points, for SQLite's BINARY collation (ORDER BY service).
Code(c) ==
    CASE c = " " -> 32
      [] c = "G" -> 71
      [] c = "U" -> 85
      [] c = "X" -> 88
      [] c = "g" -> 103
      [] c = "u" -> 117
      [] c = "x" -> 120
      [] c = "y" -> 121
      [] OTHER -> 63

\* memcmp order of two texts: s sorts strictly before t.
RECURSIVE TextLess(_, _)
TextLess(s, t) ==
    IF t = <<>> THEN FALSE
    ELSE IF s = <<>> THEN TRUE
    ELSE IF Code(Head(s)) # Code(Head(t)) THEN Code(Head(s)) < Code(Head(t))
    ELSE TextLess(Tail(s), Tail(t))

\* ----------------------------------------------------------------- cipher

\* The marker initialize_vault encrypts and unlock_vault expects, as text.
VERIFICATION_TOKEN == <<"VERIFICATION_TOKEN">>

\* _derive_key: PBKDF2-HMAC-SHA256 of the password under the salt.
derive_key(password, salt) == <<password, salt>>

\* Fernet(key).encrypt(plaintext).
Encrypt(key, plaintext) == [key |-> key, pt |-> plaintext]

\* Fernet(key).decrypt(token) returns (it raises InvalidToken otherwise).
Decrypts(key, token) == token.key = key

\* Fernet(key).decrypt(token) where it returns.
Decrypt(key, token) == token.pt

\* self._fernet = None.
NoFernet == <<>>

\* ----------------------------------------------------------------- errors

Error(type, message, missing) ==
    [type |-> type, message |-> message, missing |-> missing]

\* No exception: the call returned.
NoError == Error("", "", <<>>)
VaultLocked == Error("StorageError", "Vault is locked.", <<>>)
VaultNotInitialized ==
    Error("VaultNotInitializedError", "Vault not initialized.", <<>>)
InvalidPassword == Error("InvalidPasswordError", "Invalid master password.", <<>>)
ConfigCorrupted == Error("StorageError", "Vault configuration corrupted.", <<>>)
NoHeaders == Error("StorageError", "CSV file has no headers.", <<>>)
MissingColumns(missing) ==
    Error("StorageError", "CSV missing required columns: ", missing)

\* The password list_credentials reports for a row it cannot decrypt, as text.
DECRYPTION_ERROR == <<"<DECRYPTION_ERROR>">>

\* ------------------------------------------------------------------ files

\* A CSV file as csv.reader parses it and csv.writer writes it: the header's
\* names and the data rows, each a sequence of fields.
CsvFile(fieldnames, rows) == [exists |-> TRUE, fieldnames |-> fieldnames, rows |-> rows]

\* No file at the path.
NoFile == [exists |-> FALSE, fieldnames |-> <<>>, rows |-> <<>>]

\* ------------------------------------------------------------------ state

VARIABLES
    db_file,          \* whether the file at db_path exists
    tables,           \* the tables of the database: a subset of {"config", "credentials"}
    config,           \* the config table: a function from the keys present to their values
    credentials,      \* the credentials table: a set of rows [id, service, username, encrypted_password]
    sqlite_sequence,  \* AUTOINCREMENT: the largest id the credentials table ever held
    fernet,           \* self._fernet: NoFernet, or the key of the held cipher
    db_connection,    \* self._db_connection is set
    urandom,          \* how many salts os.urandom has handed out
    csv_file,         \* the CSV file at the path kept for a later import
    parked,           \* the table and cipher of the manager set aside by new_manager
    master,           \* the password the vault was last initialized with ("": never)
    last,             \* the last call: its name, arguments and outcome
    gen               \* the call of a function of generator.py: arguments, locals, position

vars == <<db_file, tables, config, credentials, sqlite_sequence, fernet,
          db_connection, urandom, csv_file, parked, master, last, gen>>

store == <<db_file, tables, config, credentials, sqlite_sequence>>

\* The config table without rows.
NoConfig == [k \in {} |-> 0]

\* One call as the caller sees it: op and the arguments it uses, then
\* locked (the manager held no cipher when the call started), raised (the
\* exception, NoError when it returned), opened (the call reached
\* open(csv_path)) and the returned value in the field of its type.
NoCall ==
    [op |-> "", master_password |-> "", service |-> <<>>, username |-> <<>>,
     password |-> <<>>, credential_id |-> 0, csv |-> NoFile,
     merge_duplicates |-> FALSE, dry_run |-> FALSE, keep |-> FALSE,
     locked |-> TRUE, raised |-> NoError, opened |-> FALSE,
     exists |-> FALSE, id |-> 0, rows |-> <<>>, count |-> 0,
     skipped |-> 0, issues |-> <<>>]

\* No function of generator.py is running.
NoGen ==
    [op |-> "", pc |-> "idle", raised |-> "", result |-> <<>>,
     length |-> 0, use_letters |-> FALSE, use_numbers |-> FALSE,
     use_special |-> FALSE, alphabet |-> <<>>, chars |-> <<>>, remaining |-> 0,
     i |-> 0,
     word_count |-> 0, add_numbers |-> FALSE, add_special |-> FALSE,
     words_given |-> FALSE, words |-> <<>>, pool |-> <<>>, chosen_words |-> <<>>,
     path_exists |-> FALSE, lines |-> <<>>, wordlist |-> <<>>]

\* StorageManager(db_path): nothing on disk, no cipher, no connection.
InitManager ==
    /\ db_file = FALSE
    /\ tables = {}
    /\ config = NoConfig
    /\ credentials = {}
    /\ sqlite_sequence = 0
    /\ fernet = NoFernet
    /\ db_connection = FALSE
    /\ urandom = 0
    /\ csv_file = NoFile
    /\ parked = [credentials |-> {}, fernet |-> NoFernet]
    /\ master = ""
    /\ last = [NoCall EXCEPT !.op = "__init__"]

\* The manager as constructed, and no generator call.
Init == InitManager /\ gen = NoGen

\* Everything of the manager and its store.
manager == <<store, fernet, db_connection, urandom, csv_file, parked, master, last>>

\* ------------------------------------------------------------- lifecycle

MasterPasswords == {"secret", "wrong"}

\* initialize_vault without its last line: the manager keeps the cipher it had.
initialize_vault_NoUnlock(master_password) ==
    /\ urandom < MaxInit
    /\ LET salt == urandom + 1
           key == derive_key(master_password, salt)
       IN /\ urandom' = urandom + 1
          /\ db_file' = TRUE
          /\ db_connection' = TRUE
          /\ tables' = tables \cup {"config", "credentials"}
          /\ config' = [k \in DOMAIN config \cup {"salt", "verification"} |->
                          IF k = "salt" THEN salt
                          ELSE IF k = "verification"
                               THEN Encrypt(key, VERIFICATION_TOKEN)
                          ELSE config[k]]
    /\ last' = [NoCall EXCEPT !.op = "initialize_vault",
                              !.master_password = master_password,
                              !.locked = (fernet = NoFernet)]
    /\ master' = master_password
    /\ UNCHANGED <<fernet, credentials, sqlite_sequence, csv_file, parked, gen>>

\* initialize_vault with INSERT OR IGNORE: config rows that exist are kept.
initialize_vault_KeepsConfig(master_password) ==
    /\ urandom < MaxInit
    /\ LET salt == urandom + 1
           key == derive_key(master_password, salt)
       IN /\ urandom' = urandom + 1
          /\ db_file' = TRUE
          /\ db_connection' = TRUE
          /\ tables' = tables \cup {"config", "credentials"}
          /\ config' = [k \in DOMAIN config \cup {"salt", "verification"} |->
                          IF k \in DOMAIN config THEN config[k]
                          ELSE IF k = "salt" THEN salt
                          ELSE Encrypt(key, VERIFICATION_TOKEN)]
          /\ fernet' = key
    /\ last' = [NoCall EXCEPT !.op = "initialize_vault",
                              !.master_password = master_password,
                              !.locked = (fernet = NoFernet)]
    /\ master' = master_password
    /\ UNCHANGED <<credentials, sqlite_sequence, csv_file, parked, gen>>

\* initialize_vault(master_password): both tables, the two config rows, one
\* commit, and the manager keeps the new cipher.
initialize_vault(master_password) ==
    /\ urandom < MaxInit
    /\ LET salt == urandom + 1
           key == derive_key(master_password, salt)
       IN /\ urandom' = urandom + 1
          /\ db_file' = TRUE
          /\ db_connection' = TRUE
          /\ tables' = tables \cup {"config", "credentials"}
          /\ config' = [k \in DOMAIN config \cup {"salt", "verification"} |->
                          IF k = "salt" THEN salt
                          ELSE IF k = "verification"
                               THEN Encrypt(key, VERIFICATION_TOKEN)
                          ELSE config[k]]
          /\ fernet' = key
    /\ last' = [NoCall EXCEPT !.op = "initialize_vault",
                              !.master_password = master_password,
                              !.locked = (fernet = NoFernet)]
    /\ master' = master_password
    /\ UNCHANGED <<credentials, sqlite_sequence, csv_file, parked, gen>>

\* The places where the process running initialize_vault may stop before the
\* commit: after the connection is opened, after CREATE TABLE config, after
\* CREATE TABLE credentials, after the two INSERT OR REPLACE.
StopPoints == {"connect", "config", "credentials", "insert"}

\* The tables on disk when initialize_vault stops at a point: sqlite3 runs a
\* CREATE TABLE outside any transaction, so each is durable once executed.
TablesAt(at) ==
    CASE at = "connect" -> tables
      [] at = "config" -> tables \cup {"config"}
      [] OTHER -> tables \cup {"config", "credentials"}

\* initialize_vault(master_password) in a process that stops at the point at:
\* sqlite3.connect has created the file, the tables created so far stay, the
\* INSERT OR REPLACE statements, whose transaction was not committed, are
\* rolled back, and the manager, with its cipher and connection, is gone.
initialize_vault_stopped(master_password, at) ==
    /\ urandom < MaxInit
    /\ urandom' = urandom + 1
    /\ db_file' = TRUE
    /\ tables' = TablesAt(at)
    /\ fernet' = NoFernet
    /\ db_connection' = FALSE
    /\ last' = [NoCall EXCEPT !.op = "initialize_vault_stopped",
                              !.master_password = master_password,
                              !.locked = (fernet = NoFernet)]
    /\ UNCHANGED <<config, credentials, sqlite_sequence, csv_file, parked, master, gen>>

\* vault_exists(): the file is there and holds a config table.
VaultExists == db_file /\ "config" \in tables

vault_exists ==
    /\ db_connection' = (db_connection \/ db_file)
    /\ last' = [NoCall EXCEPT !.op = "vault_exists",
                              !.locked = (fernet = NoFernet),
                              !.exists = VaultExists]
    /\ UNCHANGED <<store, fernet, urandom, csv_file, parked, master, gen>>

\* unlock_vault without the check of the verification token.
UnlockRaises_Unverified(master_password) ==
    IF ~VaultExists THEN VaultNotInitialized
    ELSE IF "salt" \notin DOMAIN config \/ "verification" \notin DOMAIN config
         THEN ConfigCorrupted
    ELSE NoError

\* unlock_vault reading missing config rows as a vault that was never set up.
UnlockRaises_NoCorrupted(master_password) ==
    IF ~VaultExists THEN VaultNotInitialized
    ELSE IF "salt" \notin DOMAIN config \/ "verification" \notin DOMAIN config
         THEN VaultNotInitialized
    ELSE IF ~Decrypts(derive_key(master_password, config["salt"]),
                      config["verification"])
         THEN InvalidPassword
    ELSE NoError

\* What unlock_vault(master_password) raises, NoError when it unlocks.
UnlockRaises(master_password) ==
    IF ~VaultExists THEN VaultNotInitialized
    ELSE IF "salt" \notin DOMAIN config \/ "verification" \notin DOMAIN config
         THEN ConfigCorrupted
    ELSE IF ~Decrypts(derive_key(master_password, config["salt"]),
                      config["verification"])
         THEN InvalidPassword
    ELSE IF Decrypt(derive_key(master_password, config["salt"]),
                    config["verification"]) # VERIFICATION_TOKEN
         THEN InvalidPassword
    ELSE NoError

\* unlock_vault writing back a verification token made with the key it derived.
unlock_vault_Rewrites(master_password) ==
    LET raised == UnlockRaises(master_password)
    IN /\ db_connection' = (db_connection \/ db_file)
       /\ fernet' = IF raised = NoError
                    THEN derive_key(master_password, config["salt"])
                    ELSE fernet
       /\ config' = IF raised \in {NoError, InvalidPassword}
                    THEN [config EXCEPT !["verification"] =
                            Encrypt(derive_key(master_password, config["salt"]),
                                    VERIFICATION_TOKEN)]
                    ELSE config
       /\ last' = [NoCall EXCEPT !.op = "unlock_vault",
                                 !.master_password = master_password,
                                 !.locked = (fernet = NoFernet),
                                 !.raised = raised]
       /\ UNCHANGED <<db_file, tables, credentials, sqlite_sequence, urandom,
                      csv_file, parked, master, gen>>

\* unlock_vault dropping the cipher the manager holds when it raises.
unlock_vault_Locks(master_password) ==
    LET raised == UnlockRaises(master_password)
    IN /\ db_connection' = (db_connection \/ db_file)
       /\ fernet' = IF raised = NoError
                    THEN derive_key(master_password, config["salt"])
                    ELSE NoFernet
       /\ last' = [NoCall EXCEPT !.op = "unlock_vault",
                                 !.master_password = master_password,
                                 !.locked = (fernet = NoFernet),
                                 !.raised = raised]
       /\ UNCHANGED <<store, urandom, csv_file, parked, master, gen>>

\* unlock_vault(master_password).
unlock_vault(master_password) ==
    LET raised == UnlockRaises(master_password)
    IN /\ db_connection' = (db_connection \/ db_file)
       /\ fernet' = IF raised = NoError
                    THEN derive_key(master_password, config["salt"])
                    ELSE fernet
       /\ last' = [NoCall EXCEPT !.op = "unlock_vault",
                                 !.master_password = master_password,
                                 !.locked = (fernet = NoFernet),
                                 !.raised = raised]
       /\ UNCHANGED <<store, urandom, csv_file, parked, master, gen>>

\* close() that closes the connection and keeps the cipher.
close_KeepsCipher ==
    /\ db_connection' = FALSE
    /\ last' = [NoCall EXCEPT !.op = "close", !.locked = (fernet = NoFernet)]
    /\ UNCHANGED <<store, fernet, urandom, csv_file, parked, master, gen>>

\* close(): the connection is closed and dropped, the cipher is dropped.
close ==
    /\ db_connection' = FALSE
    /\ fernet' = NoFernet
    /\ last' = [NoCall EXCEPT !.op = "close", !.locked = (fernet = NoFernet)]
    /\ UNCHANGED <<store, urandom, csv_file, parked, master, gen>>

\* -------------------------------------------------------------------- CRUD

\* A credentials row; created_at plays no part in any operation and is left out.
Row(id, service, username, encrypted_password) ==
    [id |-> id, service |-> service, username |-> username,
     encrypted_password |-> encrypted_password]

\* INSERT numbering as a rowid without AUTOINCREMENT does: one past the
\* largest id now in the table.
InsertRow_Rowid(rows, seq, service, username, encrypted_password) ==
    LET ids == {r.id : r \in rows} \cup {0}
    IN rows \cup {Row((CHOOSE i \in ids : \A j \in ids : j <= i) + 1,
                      service, username, encrypted_password)}

\* INSERT INTO credentials: AUTOINCREMENT numbers the row one past the largest
\* id the table ever held.
InsertRow(rows, seq, service, username, encrypted_password) ==
    rows \cup {Row(seq + 1, service, username, encrypted_password)}

\* DELETE with the comparison turned around: every other row goes.
DeleteRow_Others(rows, credential_id) == {r \in rows : r.id = credential_id}

\* DELETE FROM credentials WHERE id = ?
DeleteRow(rows, credential_id) == {r \in rows : r.id # credential_id}

\* UPDATE without its WHERE: every row takes the password.
UpdateRow_NoWhere(rows, credential_id, encrypted_password) ==
    {[r EXCEPT !.encrypted_password = encrypted_password] : r \in rows}

\* UPDATE credentials SET encrypted_password = ? WHERE id = ?
UpdateRow(rows, credential_id, encrypted_password) ==
    {IF r.id = credential_id
     THEN [r EXCEPT !.encrypted_password = encrypted_password]
     ELSE r : r \in rows}

save_credential(service, username, password) ==
    /\ sqlite_sequence < MaxId
    /\ IF fernet = NoFernet
       THEN /\ last' = [NoCall EXCEPT !.op = "save_credential",
                                      !.service = service,
                                      !.username = username,
                                      !.password = password,
                                      !.raised = VaultLocked]
            /\ UNCHANGED <<store, db_connection>>
       ELSE /\ credentials' = InsertRow(credentials, sqlite_sequence, service,
                                        username, Encrypt(fernet, password))
            /\ sqlite_sequence' = sqlite_sequence + 1
            /\ db_connection' = TRUE
            /\ last' = [NoCall EXCEPT !.op = "save_credential",
                                      !.service = service,
                                      !.username = username,
                                      !.password = password,
                                      !.locked = FALSE,
                                      !.id = sqlite_sequence + 1]
            /\ UNCHANGED <<db_file, tables, config>>
    /\ UNCHANGED <<fernet, urandom, csv_file, parked, master, gen>>

\* The SELECT without its ORDER BY: the rows in any order.
OrderByService_Unordered(rows) ==
    {o \in [1..Cardinality(rows) -> rows] :
        \A i, j \in DOMAIN o : i # j => o[i] # o[j]}

\* SELECT ... FROM credentials ORDER BY service: the orders in which the rows
\* may come back.  SQLite leaves the order of rows with equal service open.
OrderByService(rows) ==
    {o \in [1..Cardinality(rows) -> rows] :
        /\ \A i, j \in DOMAIN o : i # j => o[i] # o[j]
        /\ \A i, j \in DOMAIN o : i < j => ~TextLess(o[j].service, o[i].service)}

\* list_credentials trimming the password it decrypted.
Listed_Stripped(key, r) ==
    [id |-> r.id, service |-> r.service, username |-> r.username,
     password |-> IF Decrypts(key, r.encrypted_password)
                  THEN Strip(Decrypt(key, r.encrypted_password))
                  ELSE DECRYPTION_ERROR]

\* list_credentials giving an empty password for a row it cannot decrypt.
Listed_Blank(key, r) ==
    [id |-> r.id, service |-> r.service, username |-> r.username,
     password |-> IF Decrypts(key, r.encrypted_password)
                  THEN Decrypt(key, r.encrypted_password)
                  ELSE <<>>]

\* One entry of list_credentials' result, decrypted under key.
Listed(key, r) ==
    [id |-> r.id, service |-> r.service, username |-> r.username,
     password |-> IF Decrypts(key, r.encrypted_password)
                  THEN Decrypt(key, r.encrypted_password)
                  ELSE DECRYPTION_ERROR]

\* list_credentials' result for the rows in the order fetched.
ListOf(key, fetched) == [i \in DOMAIN fetched |-> Listed(key, fetched[i])]

\* list_credentials with no check of the cipher: every row reads as undecryptable.
list_credentials_Unguarded ==
    /\ \E fetched \in OrderByService(credentials) :
         last' = [NoCall EXCEPT !.op = "list_credentials",
                                !.locked = (fernet = NoFernet),
                                !.rows = ListOf(fernet, fetched)]
    /\ db_connection' = TRUE
    /\ UNCHANGED <<store, fernet, urandom, csv_file, parked, master, gen>>

list_credentials ==
    /\ IF fernet = NoFernet
       THEN /\ last' = [NoCall EXCEPT !.op = "list_credentials",
                                      !.raised = VaultLocked]
            /\ UNCHANGED db_connection
       ELSE /\ \E fetched \in OrderByService(credentials) :
                 last' = [NoCall EXCEPT !.op = "list_credentials",
                                        !.locked = FALSE,
                                        !.rows = ListOf(fernet, fetched)]
            /\ db_connection' = TRUE
    /\ UNCHANGED <<store, fernet, urandom, csv_file, parked, master, gen>>

delete_credential(credential_id) ==
    /\ IF fernet = NoFernet
       THEN /\ last' = [NoCall EXCEPT !.op = "delete_credential",
                                      !.credential_id = credential_id,
                                      !.raised = VaultLocked]
            /\ UNCHANGED <<credentials, db_connection>>
       ELSE /\ credentials' = DeleteRow(credentials, credential_id)
            /\ db_connection' = TRUE
            /\ last' = [NoCall EXCEPT !.op = "delete_credential",
                                      !.credential_id = credential_id,
                                      !.locked = FALSE]
    /\ UNCHANGED <<db_file, tables, config, sqlite_sequence, fernet, urandom,
                   csv_file, parked, master, gen>>

\* What the callers of save_credential pass.
Services == {<<"G">>, <<"g">>, <<"x">>, <<" ">>}
Usernames == {<<"u">>}
Passwords == {<<"x">>, <<" ", "x">>}

\* -------------------------------------------------------------------- CSV

\* The header export_to_csv writes.
ExportHeader == <<"name", "url", "username", "password", "note">>

\* export_to_csv writing four fields under the header of five: no url.
ExportedRows_NoUrl(key, fetched) ==
    LET ok == SelectSeq(fetched, LAMBDA r : Decrypts(key, r.encrypted_password))
    IN [i \in DOMAIN ok |->
          <<ok[i].service, ok[i].username,
            Decrypt(key, ok[i].encrypted_password), <<>>>>]

\* The rows export_to_csv writes for the rows fetched: one per row that
\* decrypts, url and note empty.
ExportedRows(key, fetched) ==
    LET ok == SelectSeq(fetched, LAMBDA r : Decrypts(key, r.encrypted_password))
    IN [i \in DOMAIN ok |->
          <<ok[i].service, <<>>, ok[i].username,
            Decrypt(key, ok[i].encrypted_password), <<>>>>]

\* export_to_csv passing over the rows that do not decrypt without a report.
ExportSkipped_Silent(key, fetched) == <<>>

\* export_to_csv's skipped list: one entry per row that does not decrypt
\* (str(InvalidToken()) is the empty string).
ExportSkipped(key, fetched) ==
    LET bad == SelectSeq(fetched, LAMBDA r : ~Decrypts(key, r.encrypted_password))
    IN [i \in DOMAIN bad |->
          [service |-> bad[i].service, username |-> bad[i].username,
           reason |-> "", row |-> 0]]

\* export_to_csv(csv_path).  keep: csv_path is the path whose content the
\* model follows (csv_file); the content written to any other path is
\* reported in last.csv only, since no later call reads it.
export_to_csv(keep) ==
    /\ IF fernet = NoFernet
       THEN /\ last' = [NoCall EXCEPT !.op = "export_to_csv", !.keep = keep,
                                      !.raised = VaultLocked]
            /\ UNCHANGED <<db_connection, csv_file>>
       ELSE \E fetched \in OrderByService(credentials) :
              LET file == CsvFile(ExportHeader, ExportedRows(fernet, fetched))
              IN /\ last' = [NoCall EXCEPT
                               !.op = "export_to_csv", !.keep = keep,
                               !.locked = FALSE, !.opened = TRUE,
                               !.csv = file,
                               !.count = Len(ExportedRows(fernet, fetched)),
                               !.issues = ExportSkipped(fernet, fetched)]
                 /\ csv_file' = IF keep THEN file ELSE csv_file
                 /\ db_connection' = TRUE
    /\ UNCHANGED <<store, fernet, urandom, parked, master, gen>>

\* h.lower() for the header names used here.
HeaderLower(h) ==
    CASE h = "Name" -> "name"
      [] h = "Title" -> "title"
      [] h = "SERVICE" -> "service"
      [] h = "Login" -> "login"
      [] h = "User" -> "user"
      [] h = "Username" -> "username"
      [] h = "Pass" -> "pass"
      [] h = "PASSWORD" -> "password"
      [] OTHER -> h

\* headers_lower = {h.lower(): h for h in reader.fieldnames}: the lowered
\* names; a later header of the same lowered name replaces an earlier one.
HeadersLowerKeys(fieldnames) == {HeaderLower(fieldnames[i]) : i \in DOMAIN fieldnames}

HeadersLower(fieldnames, lowered) ==
    LET at == {i \in DOMAIN fieldnames : HeaderLower(fieldnames[i]) = lowered}
    IN fieldnames[CHOOSE i \in at : \A j \in at : j <= i]

\* No column resolved (service_col = None).
NoCol == ""

\* for variant in variants: if variant in headers_lower: col = ...; break
RECURSIVE ResolveColumn(_, _)
ResolveColumn(variants, fieldnames) ==
    IF variants = <<>> THEN NoCol
    ELSE IF Head(variants) \in HeadersLowerKeys(fieldnames)
         THEN HeadersLower(fieldnames, Head(variants))
    ELSE ResolveColumn(Tail(variants), fieldnames)

ServiceVariants == <<"name", "service", "title">>
UsernameVariants == <<"username", "login", "user">>
PasswordVariants == <<"password", "pass">>

service_col(fieldnames) == ResolveColumn(ServiceVariants, fieldnames)
username_col(fieldnames) == ResolveColumn(UsernameVariants, fieldnames)
password_col(fieldnames) == ResolveColumn(PasswordVariants, fieldnames)

\* The error naming only the first column that is missing.
MissingList_First(fieldnames) ==
    IF service_col(fieldnames) = NoCol THEN <<"name/service/title">>
    ELSE IF username_col(fieldnames) = NoCol THEN <<"username/login/user">>
    ELSE IF password_col(fieldnames) = NoCol THEN <<"password/pass">>
    ELSE <<>>

\* The missing list of the "CSV missing required columns" error.
MissingList(fieldnames) ==
    (IF service_col(fieldnames) = NoCol THEN <<"name/service/title">> ELSE <<>>)
    \o (IF username_col(fieldnames) = NoCol THEN <<"username/login/user">> ELSE <<>>)
    \o (IF password_col(fieldnames) = NoCol THEN <<"password/pass">> ELSE <<>>)

\* What import_from_csv raises before it reads a data row.
ImportRaises(key, file) ==
    IF key = NoFernet THEN VaultLocked
    ELSE IF file.fieldnames = <<>> THEN NoHeaders
    ELSE IF MissingList(file.fieldnames) # <<>>
         THEN MissingColumns(MissingList(file.fieldnames))
    ELSE NoError

\* csv.DictReader: blank lines are not rows.
DictReader(file) == SelectSeq(file.rows, LAMBDA r : r # <<>>)

\* (row.get(col) or '').strip(): a row shorter than the header has None there.
Field(fieldnames, row, col) ==
    LET at == {i \in DOMAIN fieldnames : fieldnames[i] = col}
        i == CHOOSE i \in at : \A j \in at : j <= i
    IN Strip(IF i <= Len(row) THEN row[i] ELSE <<>>)

\* The key without lower(): a comparison that minds the case.
DuplicateKey_CaseSensitive(service, username) == <<service, username>>

\* key = (service.lower(), username.lower())
DuplicateKey(service, username) == <<LowerStr(service), LowerStr(username)>>

\* existing_keys left empty: the records of the vault are not looked at.
ExistingKeys_Empty(rows) == {}

\* existing_keys as the first SELECT of import_from_csv fills it.
ExistingKeys(rows) == {DuplicateKey(r.service, r.username) : r \in rows}

\* existing_map as that loop fills it, the rows fetched in id order: a later
\* row of the same key replaces the earlier one.
ExistingMap(rows) ==
    [k \in ExistingKeys(rows) |->
        LET ids == {r.id : r \in {q \in rows : DuplicateKey(q.service, q.username) = k}}
        IN CHOOSE i \in ids : \A j \in ids : j <= i]

Issue(service, username, reason, row) ==
    [service |-> service, username |-> username, reason |-> reason, row |-> row]

EMPTY == <<"(empty)">>

\* The import loop's variables before the first row.
ImportStart(rows, seq) ==
    [imported |-> 0, skipped |-> 0, duplicates |-> <<>>,
     existing_keys |-> ExistingKeys(rows), existing_map |-> ExistingMap(rows),
     credentials |-> rows, sqlite_sequence |-> seq]

\* if merge_duplicates and not dry_run: the row updates the record of its key.
Merges(merge_duplicates, dry_run) == merge_duplicates /\ ~dry_run

\* The insert without the test of dry_run.
Inserts_Always(dry_run) == TRUE

\* if not dry_run: the row of a new key is inserted.
Inserts(dry_run) == ~dry_run

\* if not service or not username or not password: the row is skipped.
MissingField(service, username, password) ==
    service = <<>> \/ username = <<>> \/ password = <<>>

\* The turn of the loop that forgets the key of the row it inserts.
ImportFields_KeyNotAdded(st, key, service, username, password, row_num, merge_duplicates, dry_run) ==
    LET k == DuplicateKey(service, username)
    IN IF MissingField(service, username, password)
       THEN [st EXCEPT
               !.skipped = @ + 1,
               !.duplicates = Append(@, Issue(
                   IF service = <<>> THEN EMPTY ELSE service,
                   IF username = <<>> THEN EMPTY ELSE username,
                   "Row N: Missing required field(s)", row_num))]
       ELSE IF k \in st.existing_keys
       THEN IF Merges(merge_duplicates, dry_run)
            THEN [st EXCEPT
                    !.credentials = UpdateRow(@, st.existing_map[k],
                                              Encrypt(key, password)),
                    !.imported = @ + 1]
            ELSE [st EXCEPT
                    !.skipped = @ + 1,
                    !.duplicates = Append(@, Issue(service, username,
                                                   "Duplicate (not merged)", 0))]
       ELSE IF Inserts(dry_run)
       THEN [st EXCEPT
               !.credentials = InsertRow(@, st.sqlite_sequence, service,
                                         username, Encrypt(key, password)),
               !.sqlite_sequence = @ + 1,
               !.imported = @ + 1]
       ELSE [st EXCEPT !.imported = @ + 1]

\* The turn of the loop that skips a duplicate without an entry for it.
ImportFields_SilentDuplicate(st, key, service, username, password, row_num, merge_duplicates, dry_run) ==
    LET k == DuplicateKey(service, username)
    IN IF MissingField(service, username, password)
       THEN [st EXCEPT
               !.skipped = @ + 1,
               !.duplicates = Append(@, Issue(
                   IF service = <<>> THEN EMPTY ELSE service,
                   IF username = <<>> THEN EMPTY ELSE username,
                   "Row N: Missing required field(s)", row_num))]
       ELSE IF k \in st.existing_keys
       THEN IF Merges(merge_duplicates, dry_run)
            THEN [st EXCEPT
                    !.credentials = UpdateRow(@, st.existing_map[k],
                                              Encrypt(key, password)),
                    !.imported = @ + 1]
            ELSE [st EXCEPT !.skipped = @ + 1]
       ELSE IF Inserts(dry_run)
       THEN [st EXCEPT
               !.credentials = InsertRow(@, st.sqlite_sequence, service,
                                         username, Encrypt(key, password)),
               !.sqlite_sequence = @ + 1,
               !.existing_map = [x \in DOMAIN @ \cup {k} |->
                                   IF x = k THEN st.sqlite_sequence + 1 ELSE @[x]],
               !.imported = @ + 1,
               !.existing_keys = @ \cup {k}]
       ELSE [st EXCEPT !.imported = @ + 1, !.existing_keys = @ \cup {k}]

\* One turn of the loop once service, username and password are read.
ImportFields(st, key, service, username, password, row_num, merge_duplicates, dry_run) ==
    LET k == DuplicateKey(service, username)
    IN IF MissingField(service, username, password)
       THEN [st EXCEPT
               !.skipped = @ + 1,
               !.duplicates = Append(@, Issue(
                   IF service = <<>> THEN EMPTY ELSE service,
                   IF username = <<>> THEN EMPTY ELSE username,
                   "Row N: Missing required field(s)", row_num))]
       ELSE IF k \in st.existing_keys
       THEN IF Merges(merge_duplicates, dry_run)
            THEN [st EXCEPT
                    !.credentials = UpdateRow(@, st.existing_map[k],
                                              Encrypt(key, password)),
                    !.imported = @ + 1]
            ELSE [st EXCEPT
                    !.skipped = @ + 1,
                    !.duplicates = Append(@, Issue(service, username,
                                                   "Duplicate (not merged)", 0))]
       ELSE IF Inserts(dry_run)
       THEN [st EXCEPT
               !.credentials = InsertRow(@, st.sqlite_sequence, service,
                                         username, Encrypt(key, password)),
               !.sqlite_sequence = @ + 1,
               !.existing_map = [x \in DOMAIN @ \cup {k} |->
                                   IF x = k THEN st.sqlite_sequence + 1 ELSE @[x]],
               !.imported = @ + 1,
               !.existing_keys = @ \cup {k}]
       ELSE [st EXCEPT !.imported = @ + 1, !.existing_keys = @ \cup {k}]

\* One turn of the loop over the data rows: row is row number row_num.
ImportRow(st, key, fieldnames, row, row_num, merge_duplicates, dry_run) ==
    CHOOSE after \in
      {ImportFields(st, key, service, username, password, row_num,
                    merge_duplicates, dry_run) :
         service \in {Field(fieldnames, row, service_col(fieldnames))},
         username \in {Field(fieldnames, row, username_col(fieldnames))},
         password \in {Field(fieldnames, row, password_col(fieldnames))}} : TRUE

\* The loop over the first n data rows (row numbers start at 2).
RECURSIVE ImportRows(_, _, _, _, _, _)
ImportRows(st, key, file, n, merge_duplicates, dry_run) ==
    IF n = 0 THEN st
    ELSE CHOOSE after \in
           {ImportRow(before, key, file.fieldnames, DictReader(file)[n], n + 1,
                      merge_duplicates, dry_run) :
              before \in {ImportRows(st, key, file, n - 1, merge_duplicates,
                                     dry_run)}} : TRUE

\* The loop's variables when import_from_csv returns.
ImportResult(rows, seq, key, file, merge_duplicates, dry_run) ==
    ImportRows(ImportStart(rows, seq), key, file, Len(DictReader(file)),
               merge_duplicates, dry_run)

\* import_from_csv(csv_path, merge_duplicates, dry_run) on the file at csv_path.
import_from_csv(file, merge_duplicates, dry_run) ==
    LET raised == ImportRaises(fernet, file)
        call == [NoCall EXCEPT !.op = "import_from_csv", !.csv = file,
                               !.merge_duplicates = merge_duplicates,
                               !.dry_run = dry_run,
                               !.locked = (fernet = NoFernet)]
    IN /\ file.exists
       /\ IF raised # NoError
          THEN /\ last' = [call EXCEPT !.raised = raised,
                                       !.opened = (fernet # NoFernet)]
               /\ db_connection' = (db_connection \/ fernet # NoFernet)
               /\ UNCHANGED <<credentials, sqlite_sequence>>
          ELSE \E res \in {ImportResult(credentials, sqlite_sequence, fernet,
                                        file, merge_duplicates, dry_run)} :
               /\ res.sqlite_sequence <= MaxId
               /\ credentials' = res.credentials
               /\ sqlite_sequence' = res.sqlite_sequence
               /\ db_connection' = TRUE
               /\ last' = [call EXCEPT !.opened = TRUE,
                                       !.count = res.imported,
                                       !.skipped = res.skipped,
                                       !.issues = res.duplicates]
       /\ UNCHANGED <<db_file, tables, config, fernet, urandom, csv_file, parked, master, gen>>

\* The import whose writes are committed once, at its end: a stop loses them.
import_from_csv_stopped_OneCommit(file, merge_duplicates, dry_run, k) ==
    /\ file.exists /\ fernet # NoFernet
    /\ ImportRaises(fernet, file) = NoError
    /\ k \in 0..Len(DictReader(file))
    /\ fernet' = NoFernet
    /\ db_connection' = FALSE
    /\ last' = [NoCall EXCEPT !.op = "import_from_csv_stopped", !.csv = file,
                              !.merge_duplicates = merge_duplicates,
                              !.dry_run = dry_run, !.locked = FALSE,
                              !.opened = TRUE, !.count = k]
    /\ UNCHANGED <<store, urandom, csv_file, parked, master, gen>>

\* import_from_csv(csv_path, merge_duplicates, dry_run) in a process that
\* stops when k data rows have been processed: each INSERT and UPDATE was
\* committed in its turn of the loop, so the writes of those k rows stay; the
\* manager, with its cipher and connection, is gone.  last.count is k.
import_from_csv_stopped(file, merge_duplicates, dry_run, k) ==
    /\ file.exists /\ fernet # NoFernet
    /\ ImportRaises(fernet, file) = NoError
    /\ k \in 0..Len(DictReader(file))
    /\ \E st \in {ImportRows(ImportStart(credentials, sqlite_sequence), fernet,
                              file, k, merge_duplicates, dry_run)} :
         /\ st.sqlite_sequence <= MaxId
         /\ credentials' = st.credentials
         /\ sqlite_sequence' = st.sqlite_sequence
    /\ fernet' = NoFernet
    /\ db_connection' = FALSE
    /\ last' = [NoCall EXCEPT !.op = "import_from_csv_stopped", !.csv = file,
                              !.merge_duplicates = merge_duplicates,
                              !.dry_run = dry_run, !.locked = FALSE,
                              !.opened = TRUE, !.count = k]
    /\ UNCHANGED <<db_file, tables, config, urandom, csv_file, parked, master, gen>>

\* The fields of the data rows of the CSV files imported.
CsvServices == {<<"g">>, <<"X">>, <<" ">>}
CsvUsernames == {<<"U">>}
CsvPasswords == {<<"y">>}

\* A data row under the browser header: name, url, username, password, note.
BrowserRow(service, username, password) ==
    <<service, <<>>, username, password, <<>>>>

BrowserRows ==
    {BrowserRow(s, u, p) : s \in CsvServices, u \in CsvUsernames, p \in CsvPasswords}

\* The sequences of at most n elements of S.
SeqsUpTo(S, n) == UNION {[1..k -> S] : k \in 0..n}

\* The CSV files imported: the browser header over every choice of rows,
\* other spellings of the columns, headers that lack a required column, a
\* blank line between the header and a data row, one key twice with two
\* passwords, and the empty file.
CsvFiles ==
    {CsvFile(ExportHeader, rows) : rows \in SeqsUpTo(BrowserRows, MaxRows)}
    \cup {CsvFile(<<"Title", "Login", "Pass">>, <<<<s, <<"U">>, <<"y">>>>>>) :
            s \in CsvServices}
    \cup {CsvFile(h, <<<<<<"X">>, <<"U">>>>>>) :
            h \in {<<"name", "username">>, <<"url", "PASSWORD">>, <<"note", "User">>}}
    \cup {CsvFile(ExportHeader, <<<<>>, BrowserRow(s, <<"U">>, <<"y">>)>>) :
            s \in {<<" ">>, <<"X">>}}
    \cup {CsvFile(ExportHeader, <<BrowserRow(<<"g">>, <<"U">>, <<"y">>),
                                  BrowserRow(<<"G">>, <<"U">>, <<"z">>)>>)}
    \cup {CsvFile(<<>>, <<>>)}

\* The files the callers of the main specification import.
MainFiles ==
    {CsvFile(ExportHeader, <<BrowserRow(<<"g">>, <<"U">>, <<"y">>)>>),
     CsvFile(<<"name", "username">>, <<<<<<"X">>, <<"U">>>>>>)}

\* StorageManager(db_path) on another path: a new manager over a store that
\* does not exist yet; the manager used so far, and its table, are set aside.
new_manager ==
    /\ parked' = [credentials |-> credentials, fernet |-> fernet]
    /\ db_file' = FALSE
    /\ tables' = {}
    /\ config' = NoConfig
    /\ credentials' = {}
    /\ sqlite_sequence' = 0
    /\ fernet' = NoFernet
    /\ db_connection' = FALSE
    /\ master' = ""
    /\ last' = [NoCall EXCEPT !.op = "__init__"]
    /\ UNCHANGED <<urandom, csv_file, gen>>

\* -------------------------------------------------------------- generator

MIN_PASSWORD_CHARS == 8
MAX_PASSWORD_CHARS == 24

\* The longest password generated with a length inside the range.
MaxLength == 8

\* string.ascii_letters, string.digits and SPECIAL_CHARACTERS, a few characters
\* of each.
LETTERS == <<"a", "Z">>
NUMBERS == <<"7">>
SPECIAL_CHARACTERS == <<"!">>

\* The characters of a string, as a set.
CharsOf(string) == {string[k] : k \in DOMAIN string}

\* pools, joined: the alphabet of the categories selected.
Pools(use_letters, use_numbers, use_special) ==
    (IF use_letters THEN LETTERS ELSE <<>>)
    \o (IF use_numbers THEN NUMBERS ELSE <<>>)
    \o (IF use_special THEN SPECIAL_CHARACTERS ELSE <<>>)

\* len(pools): the number of categories selected.
PoolCount(use_letters, use_numbers, use_special) ==
    (IF use_letters THEN 1 ELSE 0) + (IF use_numbers THEN 1 ELSE 0)
    + (IF use_special THEN 1 ELSE 0)

\* required without the character of the numbers.
Required_NoNumber(use_letters, use_numbers, use_special, l, n, s) ==
    (IF use_letters THEN <<l>> ELSE <<>>)
    \o (IF use_special THEN <<s>> ELSE <<>>)

\* required: one character chosen from each category selected.
Required(use_letters, use_numbers, use_special, l, n, s) ==
    (IF use_letters THEN <<l>> ELSE <<>>)
    \o (IF use_numbers THEN <<n>> ELSE <<>>)
    \o (IF use_special THEN <<s>> ELSE <<>>)

\* A call has raised ValueError(message).
Raise(message) == [gen EXCEPT !.pc = "done", !.raised = message]

\* generate_character_password up to remaining: the range of length, one
\* secrets.choice per selected category, the number of categories, the
\* alphabet.
generate_character_password ==
    /\ gen.op = "generate_character_password" /\ gen.pc = "call"
    /\ IF gen.length < MIN_PASSWORD_CHARS \/ gen.length > MAX_PASSWORD_CHARS
       THEN gen' = Raise("length must be between 8 and 24")
       ELSE \E l \in CharsOf(LETTERS), n \in CharsOf(NUMBERS),
               s \in CharsOf(SPECIAL_CHARACTERS) :
            \E required \in {Required(gen.use_letters, gen.use_numbers,
                                      gen.use_special, l, n, s)} :
              IF PoolCount(gen.use_letters, gen.use_numbers, gen.use_special) < 2
              THEN gen' = Raise("At least two categories must be selected")
              ELSE IF gen.length - Len(required) < 0
              THEN gen' = Raise("Password length is too small for the required categories")
              ELSE gen' = [gen EXCEPT
                             !.pc = "chars",
                             !.alphabet = Pools(gen.use_letters, gen.use_numbers,
                                                gen.use_special),
                             !.chars = required,
                             !.remaining = gen.length - Len(required)]
    /\ UNCHANGED manager

\* chars = required + [secrets.choice(alphabet) for _ in range(remaining)]:
\* one choice; after the last, secure_shuffle(chars) begins at the last index.
generate_character_password_chars ==
    /\ gen.op = "generate_character_password" /\ gen.pc = "chars"
    /\ IF gen.remaining > 0
       THEN \E c \in CharsOf(gen.alphabet) :
              gen' = [gen EXCEPT !.chars = Append(@, c), !.remaining = @ - 1]
       ELSE gen' = [gen EXCEPT !.pc = "shuffle", !.i = Len(gen.chars) - 1]
    /\ UNCHANGED manager

\* items[i], items[j] = items[j], items[i], the indices counted from 0.
Swap(items, i, j) ==
    [k \in DOMAIN items |->
        IF k = i + 1 THEN items[j + 1] ELSE IF k = j + 1 THEN items[i + 1]
        ELSE items[k]]

\* secure_shuffle: one turn of its loop, i going down to 1; after the last
\* turn generate_character_password returns "".join(chars).
secure_shuffle ==
    /\ gen.op = "generate_character_password" /\ gen.pc = "shuffle"
    /\ IF gen.i > 0
       THEN \E j \in 0..gen.i :
              gen' = [gen EXCEPT !.chars = Swap(@, gen.i, j), !.i = @ - 1]
       ELSE gen' = [gen EXCEPT !.pc = "done", !.result = gen.chars]
    /\ UNCHANGED manager

\* The lengths asked for: the range's ends from outside, and the lengths
\* inside it up to MaxLength.
Lengths ==
    {MIN_PASSWORD_CHARS - 1, MAX_PASSWORD_CHARS + 1}
    \cup MIN_PASSWORD_CHARS..MaxLength

\* The calls of generate_character_password.
PasswordCalls ==
    {[NoGen EXCEPT !.op = "generate_character_password", !.pc = "call",
                   !.length = n, !.use_letters = a, !.use_numbers = b,
                   !.use_special = c] :
        n \in Lengths, a \in BOOLEAN, b \in BOOLEAN, c \in BOOLEAN}

\* The built-in list, each word one piece of text.
DEFAULT_WORDLIST ==
    <<<<"apple">>, <<"brisk">>, <<"candle">>, <<"delta">>, <<"ember">>,
      <<"forest">>, <<"glacier">>, <<"harbor">>, <<"island">>, <<"jupiter">>,
      <<"kitten">>, <<"lantern">>, <<"meadow">>, <<"nebula">>, <<"ocean">>,
      <<"pepper">>, <<"quartz">>, <<"river">>, <<"sunrise">>, <<"tiger">>,
      <<"umbrella">>, <<"violet">>, <<"willow">>, <<"xenon">>, <<"yellow">>,
      <<"zephyr">>>>

\* The loop of load_wordlist: each line stripped, and kept unless it is empty
\* or starts with "#".
WordsOfLines(lines) ==
    SelectSeq([k \in DOMAIN lines |-> Strip(lines[k])],
              LAMBDA w : w # <<>> /\ Head(w) # "#")

\* What load_wordlist(path) returns: the built-in list when there is no file
\* or the file has fewer than 10 words.
LoadWordlist(path_exists, lines) ==
    IF ~path_exists THEN DEFAULT_WORDLIST
    ELSE IF Len(WordsOfLines(lines)) >= 10 THEN WordsOfLines(lines)
    ELSE DEFAULT_WORDLIST

load_wordlist ==
    /\ gen.op = "load_wordlist" /\ gen.pc = "call"
    /\ gen' = [gen EXCEPT !.pc = "done",
                          !.wordlist = LoadWordlist(gen.path_exists, gen.lines)]
    /\ UNCHANGED manager

\* The lines after the first nine of the word list files read.
MaxTail == 3

\* Nine words, one to a line.
NineWords ==
    <<<<"alpha">>, <<"beta">>, <<"gamma">>, <<"delta">>, <<"epsilon">>,
      <<"zeta">>, <<"eta">>, <<"theta">>, <<"iota">>>>

\* The lines that follow them: a new word, a word of the nine between
\* spaces, a blank line, a line of spaces, a comment.
TailLines ==
    {<<"kappa">>, <<" ", "beta", " ">>, <<>>, <<" ">>, <<"#", "comment">>}

\* The word list files: none at the path, a file of three words, and the nine
\* words followed by each choice of up to MaxTail lines.
WordlistFiles ==
    {[path_exists |-> FALSE, lines |-> <<>>],
     [path_exists |-> TRUE, lines |-> SubSeq(NineWords, 1, 3)]}
    \cup {[path_exists |-> TRUE, lines |-> NineWords \o tail] :
            tail \in SeqsUpTo(TailLines, MaxTail)}

\* The calls of load_wordlist.
WordlistCalls ==
    {[NoGen EXCEPT !.op = "load_wordlist", !.pc = "call",
                   !.path_exists = f.path_exists, !.lines = f.lines] :
        f \in WordlistFiles}

MIN_PASSPHRASE_WORDS == 3
MAX_PASSPHRASE_WORDS == 10

\* The largest word_count asked for inside the range.
MaxWordCount == 4

\* PASSPHRASE_SPECIALS, two of its characters.
PASSPHRASE_SPECIALS == <<"!", "?">>

\* str(secrets.randbelow(10)), one of its ten outcomes.
Digits == {"7"}

\* max_pos of _insert_token_into_words for the word at idx (counted from 0):
\* not the end of the last word.
MaxPos(words, idx) ==
    IF idx = Len(words) - 1 /\ Len(words[idx + 1]) > 0
    THEN Len(words[idx + 1]) - 1
    ELSE Len(words[idx + 1])

\* words[idx] = w[:pos] + token + w[pos:]
InsertToken(words, token, idx, pos) ==
    [words EXCEPT ![idx + 1] =
        SubSeq(@, 1, pos) \o token \o SubSeq(@, pos + 1, Len(@))]

\* _insert_token_into_words(words, token): the lists it may leave.
insert_token_into_words(words, token) ==
    UNION {{InsertToken(words, token, idx, pos) : pos \in 0..MaxPos(words, idx)} :
             idx \in 0..(Len(words) - 1)}

\* "-".join(words)
RECURSIVE Join(_)
Join(words) ==
    IF words = <<>> THEN <<>>
    ELSE IF Len(words) = 1 THEN words[1]
    ELSE words[1] \o <<"-">> \o Join(Tail(words))

\* pool.pop(idx), idx counted from 0: the pool that is left.
Pop(pool, idx) == SubSeq(pool, 1, idx) \o SubSeq(pool, idx + 2, Len(pool))

\* Where generate_passphrase goes on after a step: to the digits, to the
\* special character, or to its return.
PhaseAfter(phase, add_numbers, add_special) ==
    IF phase = "choose" /\ add_numbers THEN "numbers"
    ELSE IF phase \in {"choose", "numbers"} /\ add_special THEN "special"
    ELSE "join"

\* generate_passphrase up to its loop: the range of word_count, the word list
\* loaded when none is passed, the size of the list, the pool.
generate_passphrase ==
    /\ gen.op = "generate_passphrase" /\ gen.pc = "call"
    /\ IF gen.word_count < MIN_PASSPHRASE_WORDS \/ gen.word_count > MAX_PASSPHRASE_WORDS
       THEN gen' = Raise("word_count must be between 3 and 10")
       ELSE \E words \in {IF gen.words_given THEN gen.words
                          ELSE LoadWordlist(gen.path_exists, gen.lines)} :
            IF Len(words) < gen.word_count
            THEN gen' = [Raise("wordlist is too small for the requested word_count")
                           EXCEPT !.words = words]
            ELSE gen' = [gen EXCEPT !.pc = "choose", !.words = words,
                                    !.pool = words, !.chosen_words = <<>>]
    /\ UNCHANGED manager

\* One turn of the loop: idx = secrets.randbelow(len(pool)) and
\* chosen_words.append(pool.pop(idx)).
generate_passphrase_choose ==
    /\ gen.op = "generate_passphrase" /\ gen.pc = "choose"
    /\ \E idx \in 0..(Len(gen.pool) - 1) :
         gen' = [gen EXCEPT
                   !.chosen_words = Append(@, gen.pool[idx + 1]),
                   !.pool = Pop(@, idx),
                   !.pc = IF Len(gen.chosen_words) + 1 = gen.word_count
                          THEN PhaseAfter("choose", gen.add_numbers, gen.add_special)
                          ELSE "choose"]
    /\ UNCHANGED manager

\* if add_numbers: two, three or four digits go into one of the words.
generate_passphrase_numbers ==
    /\ gen.op = "generate_passphrase" /\ gen.pc = "numbers"
    /\ \E digits_len \in {2, 3, 4} :
         \E digits \in [1..digits_len -> Digits] :
           \E after \in insert_token_into_words(gen.chosen_words, digits) :
             gen' = [gen EXCEPT
                       !.chosen_words = after,
                       !.pc = PhaseAfter("numbers", gen.add_numbers, gen.add_special)]
    /\ UNCHANGED manager

\* if add_special: one of PASSPHRASE_SPECIALS goes into one of the words.
generate_passphrase_special ==
    /\ gen.op = "generate_passphrase" /\ gen.pc = "special"
    /\ \E c \in CharsOf(PASSPHRASE_SPECIALS) :
         \E after \in insert_token_into_words(gen.chosen_words, <<c>>) :
           gen' = [gen EXCEPT !.chosen_words = after, !.pc = "join"]
    /\ UNCHANGED manager

\* return "-".join(chosen_words)
generate_passphrase_return ==
    /\ gen.op = "generate_passphrase" /\ gen.pc = "join"
    /\ gen' = [gen EXCEPT !.pc = "done", !.result = Join(gen.chosen_words)]
    /\ UNCHANGED manager

\* The word lists passed as words: three words, four words, a word twice, two
\* words, a word with a hyphen.
WordLists ==
    {<<<<"a">>, <<"b">>, <<"c">>>>,
     <<<<"a">>, <<"b">>, <<"c">>, <<"d">>>>,
     <<<<"a">>, <<"a">>, <<"b">>>>,
     <<<<"a">>, <<"b">>>>,
     <<<<"a", "-", "b">>, <<"c">>, <<"d">>>>}

\* The values of word_count: the range's ends from outside, and the counts
\* inside it up to MaxWordCount.
WordCounts ==
    {MIN_PASSPHRASE_WORDS - 1, MAX_PASSPHRASE_WORDS + 1}
    \cup MIN_PASSPHRASE_WORDS..MaxWordCount

\* The calls of generate_passphrase: with a list passed, and with none over a
\* word list file of ten words.
PassphraseCalls ==
    {[NoGen EXCEPT !.op = "generate_passphrase", !.pc = "call",
                   !.word_count = n, !.add_numbers = a, !.add_special = b,
                   !.words_given = TRUE, !.words = w] :
        n \in WordCounts, a \in BOOLEAN, b \in BOOLEAN, w \in WordLists}
    \cup
    {[NoGen EXCEPT !.op = "generate_passphrase", !.pc = "call",
                   !.word_count = MIN_PASSPHRASE_WORDS,
                   !.add_numbers = a, !.add_special = a,
                   !.path_exists = TRUE,
                   !.lines = NineWords \o <<<<" ", "beta", " ">>>>] :
        a \in BOOLEAN}

\* ---------------------------------------------------------- specifications

\* Every operation of one manager, over the callers' inputs.
Next ==
    \/ \E p \in MasterPasswords : initialize_vault(p)
    \/ vault_exists
    \/ \E p \in MasterPasswords : unlock_vault(p)
    \/ close
    \/ \E s \in Services, u \in Usernames, p \in Passwords : save_credential(s, u, p)
    \/ list_credentials
    \/ \E i \in 1..MaxId : delete_credential(i)
    \/ export_to_csv(FALSE)
    \/ \E f \in MainFiles, m \in BOOLEAN, d \in BOOLEAN : import_from_csv(f, m, d)

Spec == Init /\ [][Next]_vars

\* The import of every file of CsvFiles into a vault, initialized once, of few
\* records.
NextImport ==
    \/ ~db_file /\ initialize_vault("secret")
    \/ \E s \in {<<"G">>, <<"x">>} : save_credential(s, <<"u">>, <<"x">>)
    \/ list_credentials
    \/ \E f \in CsvFiles, m \in BOOLEAN, d \in BOOLEAN : import_from_csv(f, m, d)

SpecImport == Init /\ [][NextImport]_vars

\* One vault exported to the kept path, and the file imported by a second
\* manager into its own vault: the first manager initializes, saves and
\* exports, the second is made once, after an export, initializes and imports.
NextRoundTrip ==
    \/ ~db_file /\ initialize_vault("secret")
    \/ /\ parked.fernet = NoFernet
       /\ \E s \in Services, u \in Usernames, p \in Passwords :
            save_credential(s, u, p)
    \/ parked.fernet = NoFernet /\ export_to_csv(TRUE)
    \/ parked.fernet = NoFernet /\ csv_file.exists /\ fernet # NoFernet /\ new_manager
    \/ import_from_csv(csv_file, FALSE, FALSE)

SpecRoundTrip == Init /\ [][NextRoundTrip]_vars

\* The life of one vault whose initialize_vault may stop before its commit.
NextCrash ==
    \/ \E p \in MasterPasswords : initialize_vault(p)
    \/ \E p \in MasterPasswords, at \in StopPoints : initialize_vault_stopped(p, at)
    \/ vault_exists
    \/ \E p \in MasterPasswords : unlock_vault(p)
    \/ close
    \/ save_credential(<<"G">>, <<"u">>, <<"x">>)
    \/ list_credentials

SpecCrash == Init /\ [][NextCrash]_vars

\* The import of a file that may stop between two rows, and the imports,
\* after the vault is unlocked again, that follow.
NextImportCrash ==
    \/ ~db_file /\ initialize_vault("secret")
    \/ \E s \in {<<"G">>, <<"x">>} : save_credential(s, <<"u">>, <<"x">>)
    \/ fernet = NoFernet /\ unlock_vault("secret")
    \/ \E f \in CsvFiles, m \in BOOLEAN, d \in BOOLEAN, k \in 0..MaxRows :
         import_from_csv_stopped(f, m, d, k)
    \/ /\ last.op = "import_from_csv_stopped"
       /\ import_from_csv(last.csv, last.merge_duplicates, last.dry_run)

SpecImportCrash == Init /\ [][NextImportCrash]_vars

\* One call of generate_character_password, over every outcome of its choices.
InitPassword == InitManager /\ gen \in PasswordCalls

NextPassword ==
    \/ generate_character_password
    \/ generate_character_password_chars
    \/ secure_shuffle

SpecPassword == InitPassword /\ [][NextPassword]_vars

\* One call of load_wordlist on each of the word list files.
InitWordlist == InitManager /\ gen \in WordlistCalls

NextWordlist == load_wordlist

SpecWordlist == InitWordlist /\ [][NextWordlist]_vars

\* One call of generate_passphrase, over every outcome of its choices.
InitPassphrase == InitManager /\ gen \in PassphraseCalls

NextPassphrase ==
    \/ generate_passphrase
    \/ generate_passphrase_choose
    \/ generate_passphrase_numbers
    \/ generate_passphrase_special
    \/ generate_passphrase_return

SpecPassphrase == InitPassphrase /\ [][NextPassphrase]_vars

\* ------------------------------------------------------------------ claims

\* The entries list_credentials returns in the current state, in any order.
ListEntries == {Listed(fernet, r) : r \in credentials}

\* C1: after initialize_vault(P) and close(), unlock_vault(P) returns and leaves
\* the manager holding a cipher, and unlock_vault(P') with P' # P raises
\* InvalidPasswordError (and no cipher is held).
C1_UnlockAfterInitialize ==
    (last.op = "unlock_vault" /\ last.locked /\ master # "") =>
        IF last.master_password = master
        THEN last.raised = NoError /\ fernet # NoFernet
        ELSE last.raised.type = "InvalidPasswordError" /\ fernet = NoFernet

C1_Witness ==
    /\ last.op = "unlock_vault" /\ last.locked /\ master = "secret"
    /\ last.master_password = "secret"
    /\ last.raised = NoError
    /\ fernet = derive_key("secret", config["salt"])

\* The operations that need the cipher.
CipherOps ==
    {"save_credential", "list_credentials", "delete_credential",
     "export_to_csv", "import_from_csv"}

\* C2: a save, list, delete, export or import called while no cipher is held
\* raises "Vault is locked.", changes nothing of the store (credentials, salt,
\* verification token), and export and import raise before open(csv_path).
C2_LockedCallsFail ==
    [][(last'.op \in CipherOps /\ fernet = NoFernet) =>
          /\ last'.raised = VaultLocked
          /\ ~last'.opened
          /\ UNCHANGED <<store, csv_file>>]_vars

C2_Witness ==
    /\ last.op = "import_from_csv" /\ last.locked /\ last.raised = VaultLocked
    /\ credentials # {} /\ "salt" \in DOMAIN config

\* C3: a list_credentials that follows a save_credential(s, u, p) which
\* returned i holds exactly one entry of id i, with service s, username u and
\* password p.
C3_SaveThenList ==
    [][(last.op = "save_credential" /\ last.raised = NoError
        /\ last'.op = "list_credentials") =>
          /\ last'.raised = NoError
          /\ Cardinality({n \in DOMAIN last'.rows : last'.rows[n].id = last.id}) = 1
          /\ \A n \in DOMAIN last'.rows :
               last'.rows[n].id = last.id =>
                 /\ last'.rows[n].service = last.service
                 /\ last'.rows[n].username = last.username
                 /\ last'.rows[n].password = last.password]_vars

C3_Witness ==
    /\ last.op = "list_credentials" /\ last.raised = NoError
    /\ Len(last.rows) = 2
    /\ \E n \in DOMAIN last.rows :
         last.rows[n].id = sqlite_sequence /\ last.rows[n].password = <<" ", "x">>

\* C4: delete_credential(id) with the cipher held raises nothing; afterwards
\* list_credentials has no entry of that id and every other entry as before
\* (so an id that is not there changes nothing).
C4_DeleteRemovesOnlyThatId ==
    [][(last'.op = "delete_credential" /\ fernet # NoFernet) =>
          /\ last'.raised = NoError
          /\ ListEntries' = {e \in ListEntries : e.id # last'.credential_id}]_vars

C4_Witness ==
    /\ last.op = "delete_credential" /\ last.raised = NoError /\ ~last.locked
    /\ sqlite_sequence = 2
    /\ Cardinality(credentials) = 1
    /\ \A r \in credentials : r.id # last.credential_id
\* (service, username, password) of each row, decrypted under key.
Triples(key, rows) ==
    {<<r.service, r.username, Decrypt(key, r.encrypted_password)>> : r \in rows}

AllDecrypt(key, rows) == \A r \in rows : Decrypts(key, r.encrypted_password)

\* file is what export_to_csv writes for the table rows under key.
IsExportOf(file, key, rows) ==
    /\ file.exists
    /\ file.fieldnames = ExportHeader
    /\ \E fetched \in OrderByService(rows) : file.rows = ExportedRows(key, fetched)

\* The step is import_from_csv(path), default flags, of the file the parked
\* manager exported from a table that decrypts, into a vault that was
\* initialized and never held a record.
RoundTripImport ==
    /\ last'.op = "import_from_csv"
    /\ last'.csv = csv_file
    /\ ~last'.merge_duplicates /\ ~last'.dry_run
    /\ fernet # NoFernet /\ credentials = {} /\ sqlite_sequence = 0
    /\ parked.fernet # NoFernet
    /\ AllDecrypt(parked.fernet, parked.credentials)
    /\ IsExportOf(csv_file, parked.fernet, parked.credentials)

\* An export from a table in which every row decrypts counts every row.
ExportCountsAll ==
    (last'.op = "export_to_csv" /\ fernet # NoFernet
     /\ AllDecrypt(fernet, credentials)) =>
        last'.raised = NoError /\ last'.count = Cardinality(credentials)

\* Text that import_from_csv keeps as it is: not empty, nothing to strip.
Trimmed(t) == t # <<>> /\ Strip(t) = t

\* Every field of every row is Trimmed, and rows that differ do not share a
\* case-insensitive (service, username).
Importable(key, rows) ==
    /\ \A r \in rows :
         /\ Trimmed(r.service) /\ Trimmed(r.username)
         /\ Trimmed(Decrypt(key, r.encrypted_password))
    /\ \A r, q \in rows :
         (LowerStr(r.service) = LowerStr(q.service)
          /\ LowerStr(r.username) = LowerStr(q.username)) =>
            /\ r.service = q.service /\ r.username = q.username
            /\ Decrypt(key, r.encrypted_password) = Decrypt(key, q.encrypted_password)

\* C5 as stated: export then import (default flags) into a freshly initialized
\* vault gives the source's set of (service, username, password), and the
\* exported count is the source's number of rows, whenever every row decrypts.
C5_RoundTripAnyVault ==
    [][/\ ExportCountsAll
       /\ RoundTripImport =>
            /\ last'.raised = NoError
            /\ Triples(fernet', credentials')
                 = Triples(parked.fernet, parked.credentials)]_vars

\* C5 amended: the same, for a source whose fields are all non-empty with no
\* leading or trailing whitespace and whose rows share a case-insensitive
\* (service, username) only when they are the same triple.
C5_RoundTripImportable ==
    [][/\ ExportCountsAll
       /\ (RoundTripImport /\ Importable(parked.fernet, parked.credentials)) =>
            /\ last'.raised = NoError
            /\ Triples(fernet', credentials')
                 = Triples(parked.fernet, parked.credentials)]_vars

C5_Witness ==
    /\ last.op = "import_from_csv" /\ last.raised = NoError
    /\ last.csv = csv_file /\ last.count = 2
    /\ parked.fernet # NoFernet
    /\ Cardinality(parked.credentials) = 2
    /\ Importable(parked.fernet, parked.credentials)
    /\ Cardinality(Triples(fernet, credentials)) = 2
    /\ Triples(fernet, credentials) = Triples(parked.fernet, parked.credentials)

\* The loop's variables of the import_from_csv that the step is, after its
\* first n data rows.
LoopAfter(n) ==
    ImportRows(ImportStart(credentials, sqlite_sequence), fernet, last'.csv, n,
               last'.merge_duplicates, last'.dry_run)

\* The step is an import_from_csv that returned what the loop computed.
ImportReturned ==
    /\ last'.op = "import_from_csv"
    /\ last'.raised = NoError
    /\ \A end \in {LoopAfter(Len(DictReader(last'.csv)))} :
          /\ last'.count = end.imported
          /\ last'.skipped = end.skipped
          /\ last'.issues = end.duplicates
          /\ credentials' = end.credentials

\* The three fields of data row n of the file imported, trimmed.
RowService(n) ==
    Field(last'.csv.fieldnames, DictReader(last'.csv)[n],
          service_col(last'.csv.fieldnames))
RowUsername(n) ==
    Field(last'.csv.fieldnames, DictReader(last'.csv)[n],
          username_col(last'.csv.fieldnames))
RowPassword(n) ==
    Field(last'.csv.fieldnames, DictReader(last'.csv)[n],
          password_col(last'.csv.fieldnames))

\* Row r has the (service, username) of data row n, case ignored.
MatchesRow(r, n) ==
    /\ LowerStr(r.service) = LowerStr(RowService(n))
    /\ LowerStr(r.username) = LowerStr(RowUsername(n))

\* Data row n has its three fields and its key is that of a record the vault
\* held when the import began.
RowOfExistingKey(n) ==
    /\ RowService(n) # <<>> /\ RowUsername(n) # <<>> /\ RowPassword(n) # <<>>
    /\ \E r \in credentials : MatchesRow(r, n)

\* What import_from_csv(file, merge_duplicates, dry_run) returns from the
\* current state.
Returned(file, merge_duplicates, dry_run) ==
    LET end == ImportResult(credentials, sqlite_sequence, fernet, file,
                            merge_duplicates, dry_run)
    IN <<end.imported, end.skipped, end.duplicates>>

\* C6: an import with dry_run=True returns the (imported_count, skipped_count,
\* issues) that the import with dry_run=False returns from the same state, for
\* every file and both values of merge_duplicates.
C6_DryRunReturnsWhatRealRunReturns ==
    [][(last'.op = "import_from_csv" /\ last'.raised = NoError) =>
          <<last'.count, last'.skipped, last'.issues>>
             = Returned(last'.csv, last'.merge_duplicates, ~last'.dry_run)]_vars

\* C7: an import with dry_run=True leaves the credentials table and the config
\* table as they were, so list_credentials returns what it returned before.
C7_DryRunWritesNothing ==
    [][(last'.op = "import_from_csv" /\ last'.dry_run) =>
          /\ credentials' = credentials
          /\ config' = config
          /\ ListEntries' = ListEntries]_vars

C7_Witness ==
    /\ last.op = "import_from_csv" /\ last.dry_run /\ last.raised = NoError
    /\ last.count = 1 /\ last.skipped = 1
    /\ Cardinality(credentials) = 1

\* C8: with merge_duplicates=False, a data row whose (service, username) is that
\* of an existing record, case ignored, adds one to skipped_count, appends the
\* one issue "Duplicate (not merged)", adds nothing to imported_count and
\* leaves every existing record as it was.
C8_DuplicateNotMerged ==
    [][(last'.op = "import_from_csv" /\ last'.raised = NoError
        /\ ~last'.merge_duplicates) =>
          /\ ImportReturned
          /\ \A n \in 1..Len(DictReader(last'.csv)) :
               RowOfExistingKey(n) =>
                 \A before \in {LoopAfter(n - 1)}, after \in {LoopAfter(n)} :
                   /\ after.skipped = before.skipped + 1
                   /\ after.duplicates
                        = Append(before.duplicates,
                                 [service |-> RowService(n),
                                  username |-> RowUsername(n),
                                  reason |-> "Duplicate (not merged)", row |-> 0])
                   /\ after.imported = before.imported
                   /\ \A r \in credentials : r \in after.credentials]_vars

\* "github"/"devuser" against "GitHub"/"DevUser", here g/U against G/u.
C8_Witness ==
    /\ last.op = "import_from_csv" /\ last.raised = NoError
    /\ ~last.merge_duplicates /\ ~last.dry_run
    /\ last.csv.rows = <<BrowserRow(<<"g">>, <<"U">>, <<"y">>)>>
    /\ last.count = 0 /\ last.skipped = 1
    /\ last.issues = <<Issue(<<"g">>, <<"U">>, "Duplicate (not merged)", 0)>>
    /\ credentials = {Row(1, <<"G">>, <<"u">>, Encrypt(fernet, <<"x">>))}

\* C9: with merge_duplicates=True and dry_run=False, a data row whose key is
\* that of an existing record replaces the encrypted password of one record of
\* that key and nothing else: the record decrypts to the row's password, keeps
\* its id, service and username, the number of records stays,
\* imported_count grows by one and no issue is added.
C9_MergeOverwritesPasswordOnly ==
    [][(last'.op = "import_from_csv" /\ last'.raised = NoError
        /\ last'.merge_duplicates /\ ~last'.dry_run) =>
          /\ ImportReturned
          /\ \A n \in 1..Len(DictReader(last'.csv)) :
               RowOfExistingKey(n) =>
                 \A before \in {LoopAfter(n - 1)}, after \in {LoopAfter(n)} :
                   /\ \E r \in before.credentials :
                        /\ MatchesRow(r, n)
                        /\ after.credentials
                             = (before.credentials \ {r})
                               \cup {Row(r.id, r.service, r.username,
                                         Encrypt(fernet, RowPassword(n)))}
                        /\ \E q \in after.credentials :
                             /\ q.id = r.id
                             /\ Decrypts(fernet, q.encrypted_password)
                             /\ Decrypt(fernet, q.encrypted_password)
                                  = RowPassword(n)
                   /\ Cardinality(after.credentials) = Cardinality(before.credentials)
                   /\ after.imported = before.imported + 1
                   /\ after.skipped = before.skipped
                   /\ after.duplicates = before.duplicates]_vars

C9_Witness ==
    /\ last.op = "import_from_csv" /\ last.raised = NoError
    /\ last.merge_duplicates /\ ~last.dry_run
    /\ last.csv.rows = <<BrowserRow(<<"g">>, <<"U">>, <<"y">>)>>
    /\ last.count = 1 /\ last.skipped = 0 /\ last.issues = <<>>
    /\ credentials = {Row(1, <<"G">>, <<"u">>, Encrypt(fernet, <<"y">>)),
                      Row(2, <<"x">>, <<"u">>, Encrypt(fernet, <<"x">>))}

\* Some header of fieldnames is, lowered, one of names.
HasColumn(fieldnames, names) ==
    \E i \in DOMAIN fieldnames : HeaderLower(fieldnames[i]) \in names

\* The required fields for which the header has no column, as the error names
\* them.
Unresolved(fieldnames) ==
    (IF HasColumn(fieldnames, {"name", "service", "title"})
     THEN <<>> ELSE <<"name/service/title">>)
    \o (IF HasColumn(fieldnames, {"username", "login", "user"})
        THEN <<>> ELSE <<"username/login/user">>)
    \o (IF HasColumn(fieldnames, {"password", "pass"})
        THEN <<>> ELSE <<"password/pass">>)

\* C10: an import of a file whose header has no column for one of service,
\* username and password raises "CSV missing required columns" naming each
\* of those fields, and inserts and updates nothing.
C10_MissingColumnsRaise ==
    [][(last'.op = "import_from_csv" /\ fernet # NoFernet
        /\ last'.csv.fieldnames # <<>>
        /\ Unresolved(last'.csv.fieldnames) # <<>>) =>
          /\ last'.raised.type = "StorageError"
          /\ last'.raised.message = "CSV missing required columns: "
          /\ last'.raised.missing = Unresolved(last'.csv.fieldnames)
          /\ credentials' = credentials
          /\ sqlite_sequence' = sqlite_sequence]_vars

C10_Witness ==
    /\ last.op = "import_from_csv"
    /\ last.csv.fieldnames = <<"name", "username">>
    /\ last.csv.rows # <<>>
    /\ last.raised.missing = <<"password/pass">>
    /\ credentials # {}

\* The position in the file of the n-th row csv.DictReader yields, the header
\* being row 1 and every line of the file, blank or not, one row.
FilePosition(file, n) ==
    1 + CHOOSE i \in DOMAIN file.rows :
          /\ file.rows[i] # <<>>
          /\ Cardinality({j \in 1..i : file.rows[j] # <<>>}) = n

\* Data row n of the file imported lacks service, username or password.
RowMissingField(n) ==
    RowService(n) = <<>> \/ RowUsername(n) = <<>> \/ RowPassword(n) = <<>>

\* C11: in an import that returns, a data row whose service, username or
\* password is empty after trimming adds one to skipped_count and the one issue
\* "Row N: Missing required field(s)" with N the row's position in the file
\* (header = row 1), inserts and updates nothing, and the rows after it are
\* processed (the call returns what the loop over all rows computed).
C11_MissingFieldRowSkipped ==
    [][(last'.op = "import_from_csv" /\ last'.raised = NoError) =>
          /\ ImportReturned
          /\ \A n \in 1..Len(DictReader(last'.csv)) :
               RowMissingField(n) =>
                 \A before \in {LoopAfter(n - 1)}, after \in {LoopAfter(n)} :
                   /\ after.skipped = before.skipped + 1
                   /\ after.imported = before.imported
                   /\ after.credentials = before.credentials
                   /\ Len(after.duplicates) = Len(before.duplicates) + 1
                   /\ after.duplicates[Len(after.duplicates)].reason
                        = "Row N: Missing required field(s)"
                   /\ after.duplicates[Len(after.duplicates)].row
                        = FilePosition(last'.csv, n)]_vars

\* The records that decrypt under key, and those that do not.
Decryptable(key, rows) == {r \in rows : Decrypts(key, r.encrypted_password)}
Undecryptable(key, rows) == {r \in rows : ~Decrypts(key, r.encrypted_password)}

\* C12: an export with the cipher held returns; exported_count plus the length
\* of skipped_rows is the number of records; the file holds one row for each
\* record that decrypts and none for a record that does not, and skipped_rows
\* has one entry, with its service and username, for each record that does not.
C12_ExportAccountsForEveryRecord ==
    [][(last'.op = "export_to_csv" /\ fernet # NoFernet) =>
          /\ last'.raised = NoError
          /\ last'.count + Len(last'.issues) = Cardinality(credentials)
          /\ last'.count = Cardinality(Decryptable(fernet, credentials))
          /\ Len(last'.csv.rows) = last'.count
          /\ {last'.csv.rows[i] : i \in DOMAIN last'.csv.rows}
               = {<<r.service, <<>>, r.username,
                    Decrypt(fernet, r.encrypted_password), <<>>>> :
                    r \in Decryptable(fernet, credentials)}
          /\ {<<last'.issues[i].service, last'.issues[i].username>> :
                 i \in DOMAIN last'.issues}
               = {<<r.service, r.username>> :
                    r \in Undecryptable(fernet, credentials)}]_vars

C12_Witness ==
    /\ last.op = "export_to_csv" /\ last.raised = NoError
    /\ last.count = 1 /\ Len(last.issues) = 1
    /\ Len(last.csv.rows) = 1
    /\ Cardinality(Undecryptable(fernet, credentials)) = 1

\* The state initialize_vault(master_password) leaves: both tables, a salt and
\* a verification token that decrypts to the marker under the key derived from
\* the password and that salt, and the manager holding that key.
Initialized(master_password) ==
    /\ db_file /\ {"config", "credentials"} \subseteq tables
    /\ DOMAIN config = {"salt", "verification"}
    /\ fernet = derive_key(master_password, config["salt"])
    /\ Decrypts(fernet, config["verification"])
    /\ Decrypt(fernet, config["verification"]) = VERIFICATION_TOKEN

\* C13 as stated: every initialize_vault leaves the store and the manager
\* Initialized, and a list_credentials right after it returns the empty list.
C13_InitializeThenListEmpty ==
    [][/\ last'.op = "initialize_vault" =>
            \E p \in MasterPasswords :
               p = last'.master_password /\ Initialized(p)'
       /\ (last.op = "initialize_vault" /\ last'.op = "list_credentials") =>
            last'.raised = NoError /\ last'.rows = <<>>]_vars

\* C13 amended: every initialize_vault leaves the store and the manager
\* Initialized and the credentials table as it was; a list_credentials right
\* after it returns one entry per record of the table, none when the table was
\* absent or empty, and each record kept from before the call is listed with
\* the decryption-error sentinel as its password.
C13_InitializeKeepsRecords ==
    [][/\ last'.op = "initialize_vault" =>
            /\ \E p \in MasterPasswords :
                  p = last'.master_password /\ Initialized(p)'
            /\ credentials' = credentials
            /\ sqlite_sequence' = sqlite_sequence
       /\ (last.op = "initialize_vault" /\ last'.op = "list_credentials") =>
            /\ last'.raised = NoError
            /\ Len(last'.rows) = Cardinality(credentials)
            /\ {last'.rows[i].id : i \in DOMAIN last'.rows}
                 = {r.id : r \in credentials}
            /\ \A i \in DOMAIN last'.rows :
                 last'.rows[i].password = DECRYPTION_ERROR]_vars

C13_Witness ==
    /\ last.op = "initialize_vault"
    /\ Initialized(last.master_password)
    /\ config["salt"] = 2
    /\ credentials # {}
    /\ Undecryptable(fernet, credentials) = credentials

\* The operations other than initialize_vault.
OtherOps ==
    {"unlock_vault", "close", "vault_exists", "save_credential",
     "list_credentials", "delete_credential", "export_to_csv", "import_from_csv"}

\* C14: no call of unlock_vault, close, vault_exists, save_credential,
\* list_credentials, delete_credential, export_to_csv or import_from_csv,
\* whether it returns or raises, changes the config table: the salt and the
\* verification token stay as initialize_vault wrote them.
C14_ConfigWrittenOnlyByInitialize ==
    [][last'.op \in OtherOps => config' = config /\ tables' = tables]_vars

C14_Witness ==
    /\ last.op = "unlock_vault" /\ last.raised = InvalidPassword
    /\ ~last.locked
    /\ config["salt"] = 1
    /\ config["verification"] = Encrypt(derive_key(master, 1), VERIFICATION_TOKEN)
    /\ credentials # {}

\* The identifiers of the records of a table.
Ids(rows) == {r.id : r \in rows}

\* C15: identifiers are unique, and every identifier a step assigns (by
\* save_credential or import_from_csv) is greater than every identifier
\* assigned before it, those of deleted records included: the table's
\* identifiers never exceed the largest ever assigned, which never decreases,
\* and each new identifier exceeds it.
C15_IdsIncreaseNeverReused ==
    [][/\ Cardinality(Ids(credentials')) = Cardinality(credentials')
       /\ \A i \in Ids(credentials) : i <= sqlite_sequence
       /\ sqlite_sequence' >= sqlite_sequence
       /\ \A i \in Ids(credentials') \ Ids(credentials) :
            /\ i > sqlite_sequence
            /\ i <= sqlite_sequence'
       /\ (last'.op = "save_credential" /\ last'.raised = NoError) =>
            /\ last'.id \in Ids(credentials') \ Ids(credentials)
            /\ last'.id > sqlite_sequence]_vars

\* A save after the only record, of id 1, was deleted: the new id is 2.
C15_Witness ==
    /\ last.op = "save_credential" /\ last.raised = NoError
    /\ last.id = 2
    /\ Ids(credentials) = {2}
    /\ sqlite_sequence = 2

\* The services of a sequence never descend, in the order of their bytes.
SortedByService(services) ==
    \A i, j \in DOMAIN services : i < j => ~TextLess(services[j], services[i])

\* The entries of a sequence of equal service come in the order of their ids.
TiesById(o) ==
    \A i, j \in DOMAIN o : (i < j /\ o[i].service = o[j].service) => o[i].id < o[j].id

\* The row export_to_csv writes for a record.
ExportRowOf(key, r) ==
    <<r.service, <<>>, r.username, Decrypt(key, r.encrypted_password), <<>>>>

\* The orderings of the records that decrypt, taken as a sequence.
DecryptableOrders(key, rows) ==
    {o \in [1..Cardinality(Decryptable(key, rows)) -> Decryptable(key, rows)] :
        \A i, j \in DOMAIN o : i # j => o[i] # o[j]}

\* list_credentials returned one entry per record, the services never descending.
ListSorted ==
    /\ last'.raised = NoError
    /\ Len(last'.rows) = Cardinality(credentials)
    /\ {last'.rows[i].id : i \in DOMAIN last'.rows} = Ids(credentials)
    /\ SortedByService([i \in DOMAIN last'.rows |-> last'.rows[i].service])

\* export_to_csv wrote the rows of the records that decrypt, the services
\* never descending; o is the order of the records written.
ExportSorted(o) ==
    /\ last'.csv.rows = [i \in DOMAIN o |-> ExportRowOf(fernet, o[i])]
    /\ SortedByService([i \in DOMAIN o |-> o[i].service])

C17_ListIsolatesDecryptionErrors ==
    [][(last'.op = "list_credentials" /\ fernet # NoFernet) =>
          /\ last'.raised = NoError
          /\ Len(last'.rows) = Cardinality(credentials)
          /\ \A r \in credentials :
               \E i \in DOMAIN last'.rows :
                 /\ last'.rows[i].id = r.id
                 /\ last'.rows[i].service = r.service
                 /\ last'.rows[i].username = r.username
                 /\ last'.rows[i].password
                      = IF r \in Undecryptable(fernet, credentials)
                        THEN <<"<DECRYPTION_ERROR>">>
                        ELSE r.encrypted_password.pt]_vars

C17_Witness ==
    /\ last.op = "list_credentials" /\ last.raised = NoError
    /\ Len(last.rows) = 2
    /\ \E i, j \in DOMAIN last.rows :
         /\ last.rows[i].password = <<"<DECRYPTION_ERROR>">>
         /\ last.rows[j].password = <<" ", "x">>
    /\ Cardinality(Undecryptable(fernet, credentials)) = 1

\* C18: close() raises nothing, leaves no cipher and no connection and changes
\* nothing of the store; a close() that follows a close() changes nothing at
\* all; and the manager stays without cipher, every save, list, delete, export
\* and import raising "Vault is locked.", until an unlock_vault or an
\* initialize_vault returns.
C18_CloseLocksUntilUnlock ==
    [][/\ last'.op = "close" =>
            /\ last'.raised = NoError
            /\ fernet' = NoFernet /\ ~db_connection'
            /\ UNCHANGED <<store, csv_file>>
       /\ (last.op = "close" /\ last'.op = "close") =>
            UNCHANGED <<store, fernet, db_connection, csv_file>>
       /\ (fernet = NoFernet /\ last'.op \in CipherOps) =>
            last'.raised = VaultLocked /\ fernet' = NoFernet
       /\ (fernet = NoFernet /\ fernet' # NoFernet) =>
            /\ last'.op \in {"unlock_vault", "initialize_vault"}
            /\ last'.raised = NoError]_vars

\* A close() called with no cipher held, on a vault that holds a record.
C18_Witness ==
    /\ last.op = "close" /\ last.locked /\ last.raised = NoError
    /\ fernet = NoFernet /\ ~db_connection
    /\ credentials # {}

\* C19: unlock_vault raises VaultNotInitializedError when the database file is
\* absent or holds no config table; raises the "Vault configuration corrupted."
\* StorageError when the config table is there and the salt or the verification
\* row is not; and otherwise either returns or raises InvalidPasswordError.
\* A call that raises leaves the manager's cipher as it was, so a manager
\* without cipher stays without.
C19_UnlockFailureKinds ==
    [][last'.op = "unlock_vault" =>
          /\ IF ~db_file \/ "config" \notin tables
             THEN last'.raised.type = "VaultNotInitializedError"
             ELSE IF {"salt", "verification"} \subseteq DOMAIN config
             THEN \/ last'.raised = NoError
                  \/ last'.raised.type = "InvalidPasswordError"
             ELSE /\ last'.raised.type = "StorageError"
                  /\ last'.raised.message = "Vault configuration corrupted."
          /\ last'.raised # NoError => fernet' = fernet
          /\ last'.raised = NoError => fernet' # NoFernet]_vars

\* An unlock_vault of a store whose config table has no rows.
C19_Witness ==
    /\ last.op = "unlock_vault" /\ last.raised = ConfigCorrupted
    /\ db_file /\ "config" \in tables
    /\ DOMAIN config = {}
    /\ fernet = NoFernet

\* C20: the persisted store is never half initialized: whenever
\* vault_exists() is true, the config table holds both the salt row and the
\* verification row and the credentials table exists.
C20_NeverHalfInitialized ==
    VaultExists =>
        /\ {"salt", "verification"} \subseteq DOMAIN config
        /\ "credentials" \in tables

\* The call of generate_character_password has ended.
PasswordDone == gen.op = "generate_character_password" /\ gen.pc = "done"

\* The length is in [8, 24].
LengthInRange == gen.length >= 8 /\ gen.length <= 24

\* The number of categories the call selects.
Selected ==
    Cardinality({c \in {"letters", "numbers", "special"} :
                   \/ c = "letters" /\ gen.use_letters
                   \/ c = "numbers" /\ gen.use_numbers
                   \/ c = "special" /\ gen.use_special})

\* The result has the length asked for, a character of each category selected
\* and no character of a category not selected.
WellFormedPassword ==
    /\ gen.raised = ""
    /\ Len(gen.result) = gen.length
    /\ gen.use_letters => \E k \in DOMAIN gen.result : gen.result[k] \in {"a", "Z"}
    /\ gen.use_numbers => \E k \in DOMAIN gen.result : gen.result[k] = "7"
    /\ gen.use_special => \E k \in DOMAIN gen.result : gen.result[k] = "!"
    /\ \A k \in DOMAIN gen.result :
         \/ gen.use_letters /\ gen.result[k] \in {"a", "Z"}
         \/ gen.use_numbers /\ gen.result[k] = "7"
         \/ gen.use_special /\ gen.result[k] = "!"

\* C21: generate_character_password with a length in [8, 24] and two or three
\* categories selected returns a string of that length with at least one
\* character of each selected category and none of any other, whatever the
\* random choices and the shuffle.
C21_PasswordHasEveryCategory ==
    (PasswordDone /\ LengthInRange /\ Selected >= 2) => WellFormedPassword

\* The shuffle has moved the special character, chosen third, to the front.
C21_Witness ==
    /\ PasswordDone /\ gen.length = 8 /\ Selected = 3
    /\ gen.raised = ""
    /\ gen.result[1] = "!" /\ gen.result[2] = "7" /\ gen.result[8] = "Z"

\* C22: generate_character_password with a length in [8, 24] and exactly one
\* category selected returns, without raising, a string of that length made
\* of characters of that category.
C22_SingleCategoryAllowed ==
    (PasswordDone /\ LengthInRange /\ Selected = 1) => WellFormedPassword

\* The words of a list, each kept once, at its first position.
RECURSIVE Dedupe(_)
Dedupe(words) ==
    IF words = <<>> THEN <<>>
    ELSE LET front == Dedupe(SubSeq(words, 1, Len(words) - 1))
             w == words[Len(words)]
         IN IF \E k \in DOMAIN front : front[k] = w THEN front
            ELSE Append(front, w)

\* A line is blank, or a comment.
Ignored(line) == Strip(line) = <<>> \/ Head(Strip(line)) = "#"

\* The words of the lines of a file: blank lines and comments removed, each
\* other line trimmed, each word once.
DistinctWords(lines) ==
    Dedupe(SelectSeq([k \in DOMAIN lines |-> Strip(lines[k])],
                     LAMBDA w : w # <<>> /\ Head(w) # "#"))

\* C24: load_wordlist on an existing file returns the words of the file in
\* order, without blank lines, comments and repeated words, or the built-in
\* list when fewer than 10 words remain.
C24_WordlistDeduplicated ==
    (gen.op = "load_wordlist" /\ gen.pc = "done" /\ gen.path_exists) =>
        gen.wordlist = IF Len(DistinctWords(gen.lines)) >= 10
                       THEN DistinctWords(gen.lines)
                       ELSE DEFAULT_WORDLIST

\* text.split("-"): the parts between the hyphens.
RECURSIVE Split(_)
Split(text) ==
    IF \A k \in DOMAIN text : text[k] # "-" THEN <<text>>
    ELSE LET at == CHOOSE k \in DOMAIN text :
                     text[k] = "-" /\ \A j \in 1..(k - 1) : text[j] # "-"
         IN <<SubSeq(text, 1, at - 1)>> \o Split(SubSeq(text, at + 1, Len(text)))

\* C23: generate_passphrase with word_count in [3, 10] and a word list of at
\* least word_count entries returns word_count parts separated by hyphens, no
\* two of them the same word, whatever the list and the random choices.
C23_PassphraseNeverRepeatsWord ==
    (gen.op = "generate_passphrase" /\ gen.pc = "done"
     /\ gen.word_count >= 3 /\ gen.word_count <= 10
     /\ Len(gen.words) >= gen.word_count) =>
        /\ gen.raised = ""
        /\ Len(Split(gen.result)) = gen.word_count
        /\ \A j, k \in DOMAIN Split(gen.result) :
             j # k => Split(gen.result)[j] # Split(gen.result)[k]

\* Data row n of the file imported has its three fields, and an earlier data
\* row that has its three fields has the same (service, username), case
\* ignored.
RepeatsEarlierRow(n) ==
    /\ ~RowMissingField(n)
    /\ \E m \in 1..(n - 1) :
         /\ ~RowMissingField(m)
         /\ LowerStr(RowService(m)) = LowerStr(RowService(n))
         /\ LowerStr(RowUsername(m)) = LowerStr(RowUsername(n))

\* C25: in an import that returns, a data row whose key is that of an earlier
\* valid row of the same file is a duplicate.  With merge_duplicates and not
\* dry_run its password overwrites the record of that key, which is the one
\* the earlier row inserted when the vault held none, and the row counts as
\* imported; otherwise, dry_run included, it is skipped with the issue
\* "Duplicate (not merged)" and writes nothing.
C25_DuplicateWithinFile ==
    [][(last'.op = "import_from_csv" /\ last'.raised = NoError) =>
          /\ ImportReturned
          /\ \A n \in 1..Len(DictReader(last'.csv)) :
               RepeatsEarlierRow(n) =>
                 \A before \in {LoopAfter(n - 1)}, after \in {LoopAfter(n)} :
                   IF last'.merge_duplicates /\ ~last'.dry_run
                   THEN /\ \E r \in before.credentials :
                             /\ MatchesRow(r, n)
                             /\ (\A q \in credentials : ~MatchesRow(q, n))
                                  => r.id > sqlite_sequence
                             /\ after.credentials
                                  = (before.credentials \ {r})
                                    \cup {Row(r.id, r.service, r.username,
                                              Encrypt(fernet, RowPassword(n)))}
                        /\ after.imported = before.imported + 1
                        /\ after.skipped = before.skipped
                   ELSE /\ after.skipped = before.skipped + 1
                        /\ after.duplicates
                             = Append(before.duplicates,
                                      [service |-> RowService(n),
                                       username |-> RowUsername(n),
                                       reason |-> "Duplicate (not merged)",
                                       row |-> 0])
                        /\ after.imported = before.imported
                        /\ after.credentials = before.credentials]_vars

\* g/U/y then G/U/z merged into an empty vault: one record, of password z.
C25_Witness ==
    /\ last.op = "import_from_csv" /\ last.raised = NoError
    /\ last.merge_duplicates /\ ~last.dry_run
    /\ Len(last.csv.rows) = 2
    /\ last.count = 2 /\ last.skipped = 0
    /\ credentials = {Row(1, <<"g">>, <<"U">>, Encrypt(fernet, <<"z">>))}

\* The record was encrypted under a salt that the config table no longer
\* holds: it was saved before the vault was initialized again.
Stale(r) ==
    "salt" \in DOMAIN config /\ r.encrypted_password.key[2] # config["salt"]

\* C26: initialize_vault on an initialized vault replaces the salt and the
\* verification token and keeps the credentials rows, none of which decrypts
\* under the new key.  Afterwards unlock_vault with the password of such a
\* record, when it is not the new password, raises InvalidPasswordError;
\* list_credentials gives each such record the decryption-error sentinel as
\* password; export_to_csv reports each in skipped_rows and writes none.
C26_ReinitializeForfeitsRecords ==
    [][/\ (last'.op = "initialize_vault" /\ VaultExists
           /\ {"salt", "verification"} \subseteq DOMAIN config) =>
            /\ config'["salt"] # config["salt"]
            /\ config'["verification"] # config["verification"]
            /\ credentials' = credentials
            /\ \A r \in credentials' : ~Decrypts(fernet', r.encrypted_password)
       /\ (last'.op = "unlock_vault" /\ last'.master_password # master
           /\ \E r \in credentials :
                Stale(r) /\ r.encrypted_password.key[1] = last'.master_password) =>
            /\ last'.raised.type = "InvalidPasswordError"
            /\ fernet' = fernet
       /\ (last'.op = "list_credentials" /\ fernet # NoFernet) =>
            \A r \in credentials :
               Stale(r) => \E i \in DOMAIN last'.rows :
                              /\ last'.rows[i].id = r.id
                              /\ last'.rows[i].password = <<"<DECRYPTION_ERROR>">>
       /\ (last'.op = "export_to_csv" /\ fernet # NoFernet) =>
            /\ \A r \in credentials :
                 Stale(r) => \E i \in DOMAIN last'.issues :
                                /\ last'.issues[i].service = r.service
                                /\ last'.issues[i].username = r.username
            /\ Len(last'.csv.rows)
                 = Cardinality({r \in credentials : ~Stale(r)})]_vars

\* unlock_vault("secret") after the vault of "secret", holding a record, was
\* initialized again with "wrong".
C26_Witness ==
    /\ last.op = "unlock_vault" /\ last.master_password = "secret"
    /\ last.raised = InvalidPassword
    /\ master = "wrong" /\ config["salt"] = 2
    /\ credentials # {}
    /\ \A r \in credentials : r.encrypted_password.key = derive_key("secret", 1)

\* The file cut after the first k rows that csv.DictReader yields.
FirstRows(file, k) == [file EXCEPT !.rows = SubSeq(DictReader(file), 1, k)]

\* The table an import of file that runs to its end leaves, from the table
\* rows and the counter seq, under the flags of the step's call.
ImportedTable(rows, seq, file) ==
    ImportResult(rows, seq, fernet, file, last'.merge_duplicates,
                 last'.dry_run).credentials

\* C27: when the process stops after k data rows of an import, the table is
\* the one an import of only those k rows leaves; every row among them that
\* was written has its key in the table, so that the same import run again
\* finds it as a duplicate; and that second run ends with the set of
\* (service, username, password) with which the import, not interrupted, ends.
C27_StoppedImportCanBeRerun ==
    [][last'.op = "import_from_csv_stopped" =>
          /\ credentials'
               = ImportedTable(credentials, sqlite_sequence,
                               FirstRows(last'.csv, last'.count))
          /\ ~last'.dry_run =>
               \A n \in 1..last'.count :
                 ~RowMissingField(n) => \E r \in credentials' : MatchesRow(r, n)
          /\ Triples(fernet, ImportedTable(credentials', sqlite_sequence', last'.csv))
               = Triples(fernet, ImportedTable(credentials, sqlite_sequence,
                                               last'.csv))]_vars

\* The import stopped after the first of two rows, which it inserted.
C27_Witness ==
    /\ last.op = "import_from_csv_stopped" /\ ~last.dry_run
    /\ Len(DictReader(last.csv)) = 2 /\ last.count = 1
    /\ sqlite_sequence = 1 /\ Cardinality(credentials) = 1
    /\ fernet = NoFernet

\* C28: an import_from_csv that returns, under any flags, has counted every
\* data row it read once, as imported or as skipped, and its list of issues
\* has one entry for each row skipped.
C28_EveryRowCountedOnce ==
    [][(last'.op = "import_from_csv" /\ last'.raised = NoError) =>
          /\ last'.count + last'.skipped = Len(DictReader(last'.csv))
          /\ Len(last'.issues) = last'.skipped
          /\ \A n \in 1..Len(DictReader(last'.csv)) :
               \A before \in {LoopAfter(n - 1)}, after \in {LoopAfter(n)} :
                 \/ /\ after.imported = before.imported + 1
                    /\ after.skipped = before.skipped
                    /\ after.duplicates = before.duplicates
                 \/ /\ after.imported = before.imported
                    /\ after.skipped = before.skipped + 1
                    /\ Len(after.duplicates) = Len(before.duplicates) + 1]_vars

\* An import of two rows returned: one imported, one skipped with its issue.
C28_Witness ==
    /\ last.op = "import_from_csv" /\ last.raised = NoError
    /\ Len(DictReader(last.csv)) = 2
    /\ last.count = 1 /\ last.skipped = 1 /\ Len(last.issues) = 1
    /\ last.issues[1].reason = "Duplicate (not merged)"

\* The step before was an unlock_vault that raised in a manager holding a
\* cipher.
FailedUnlockOfUnlocked ==
    last.op = "unlock_vault" /\ last.raised # NoError /\ ~last.locked

\* C29: an unlock_vault that raises leaves the manager's cipher as it was: a
\* manager without cipher stays without, and a manager holding a key holds
\* the same key after an unlock that failed; a save_credential that follows
\* returns and encrypts with that key, and a list_credentials that follows
\* returns the records as that key decrypts them.
C29_FailedUnlockKeepsCipher ==
    [][/\ (last'.op = "unlock_vault" /\ last'.raised # NoError) =>
            /\ fernet' = fernet
            /\ last'.locked <=> fernet' = NoFernet
       /\ (FailedUnlockOfUnlocked /\ last'.op = "save_credential") =>
            /\ last'.raised = NoError /\ fernet' = fernet
            /\ \E r \in credentials' \ credentials :
                 /\ r.id = last'.id
                 /\ r.encrypted_password = Encrypt(fernet, last'.password)
       /\ (FailedUnlockOfUnlocked /\ last'.op = "list_credentials") =>
            /\ last'.raised = NoError /\ fernet' = fernet
            /\ Len(last'.rows) = Cardinality(credentials)
            /\ \A i \in 1..Len(last'.rows) : last'.rows[i] \in ListEntries]_vars

\* An unlock with the wrong password of the vault, in the manager that holds
\* the key of a record: the key is still held.
C29_Witness ==
    /\ last.op = "unlock_vault" /\ last.raised = InvalidPassword /\ ~last.locked
    /\ fernet # NoFernet
    /\ Decryptable(fernet, credentials) # {}

\* The (service, username) of a record or of a data row, case ignored.
KeyOf(service, username) == <<LowerStr(service), LowerStr(username)>>

\* No two records of rows have the same key.
NoDuplicateKey(rows) ==
    \A r, q \in rows : KeyOf(r.service, r.username) = KeyOf(q.service, q.username)
                          => r = q

\* The keys of the data rows, of the file imported, that have their three
\* fields.
ValidKeys ==
    {KeyOf(RowService(n), RowUsername(n)) :
       n \in {i \in 1..Len(DictReader(last'.csv)) : ~RowMissingField(i)}}

\* C30: an import_from_csv that returns, on a vault where no two records have
\* the same key, leaves a vault where no two records have the same key,
\* whatever merge_duplicates is and whether or not the file repeats keys; and
\* the number of records grows by the number of distinct keys of the file's
\* valid rows that no record had, and by none under dry_run.
C30_ImportAddsNoDuplicateKey ==
    [][(last'.op = "import_from_csv" /\ last'.raised = NoError) =>
          /\ NoDuplicateKey(credentials) => NoDuplicateKey(credentials')
          /\ Cardinality(credentials') - Cardinality(credentials)
               = IF last'.dry_run THEN 0
                 ELSE Cardinality(ValidKeys \
                        {KeyOf(r.service, r.username) : r \in credentials})]_vars

\* An import that wrote, of a file whose two rows have one key, a key that a
\* record of the vault has: the vault holds that one record of the key.
C30_Witness ==
    /\ last.op = "import_from_csv" /\ last.raised = NoError /\ ~last.dry_run
    /\ Len(DictReader(last.csv)) = 2
    /\ last.count + last.skipped = 2 /\ last.count >= 1
    /\ NoDuplicateKey(credentials)
    /\ \A n \in 1..2 :
         \E s \in {Field(last.csv.fieldnames, DictReader(last.csv)[n],
                         service_col(last.csv.fieldnames))},
            u \in {Field(last.csv.fieldnames, DictReader(last.csv)[n],
                         username_col(last.csv.fieldnames))} :
           /\ s # <<>> /\ u # <<>>
           /\ Cardinality({r \in credentials :
                             KeyOf(r.service, r.username) = KeyOf(s, u)}) = 1
    /\ Cardinality(credentials) = 1
====
